---- MODULE Spec2Model ----
(***************************************************************************)
(* Model of the backend-access and cache layer of RKSIPlanshetkaMobile:    *)
(* lib/backend.ts (directory getters, error normalisation) and the         *)
(* schedule loading of app/(tabs)/index.tsx.                                *)
(*                                                                         *)
(* Strings the code inspects character by character (directory names) are  *)
(* sequences of one-character strings; strings the code only passes on     *)
(* are TLA+ strings.  JSON texts kept in AsyncStorage are records naming   *)
(* the JSON value the text denotes, so that JSON.parse can fail or yield   *)
(* a value of an unexpected type.                                          *)
(***************************************************************************)
EXTENDS Integers, Sequences, FiniteSets, TLC

\* ------------------------------------------------------------------ bounds
\* Longest list the backend returns for /groups, /prepods, /cabs.
MaxListLen == 2
\* Number of loadSchedule calls of a run.
MaxCalls == 2
\* Number of days that pass while the caches are written and read.
MaxDaysPassed == 7
\* Number of couples the backend sends for a day.
MaxCouples == 3
\* Number of date keys in an answer of /couples/{name}.
MaxDays == 3
\* Number of getWebDeviceToken calls of a run.
MaxWebCalls == 2
\* Number of milliseconds that pass while they run.
MaxMillis == 2
\* Number of calls of the subscription handlers of a run.
MaxOps == 2

\* ----------------------------------------------------------------- strings
Digits == {"0", "1", "2", "3", "4", "5", "6", "7", "8", "9"}

DigitVal(c) ==
  CASE c = "0" -> 0 [] c = "1" -> 1 [] c = "2" -> 2 [] c = "3" -> 3
    [] c = "4" -> 4 [] c = "5" -> 5 [] c = "6" -> 6 [] c = "7" -> 7
    [] c = "8" -> 8 [] c = "9" -> 9

\* value.replace(/\d+/g, '')
RECURSIVE StripDigits(_)
StripDigits(s) ==
  IF s = <<>> THEN <<>>
  ELSE IF Head(s) \in Digits THEN StripDigits(Tail(s))
  ELSE <<Head(s)>> \o StripDigits(Tail(s))

RECURSIVE TrimLeft(_)
TrimLeft(s) ==
  IF s # <<>> /\ Head(s) = " " THEN TrimLeft(Tail(s)) ELSE s

RECURSIVE TrimRight(_)
TrimRight(s) ==
  IF s # <<>> /\ s[Len(s)] = " " THEN TrimRight(SubSeq(s, 1, Len(s) - 1)) ELSE s

\* String.prototype.trim
Trim(s) == TrimRight(TrimLeft(s))

\* (value.match(/\d+/g) ?? []).map(Number): the maximal digit runs, as numbers.
RECURSIVE ScanRuns(_, _, _, _, _)
ScanRuns(s, i, inRun, cur, acc) ==
  IF i > Len(s) THEN (IF inRun THEN Append(acc, cur) ELSE acc)
  ELSE IF s[i] \in Digits
       THEN ScanRuns(s, i + 1, TRUE, (IF inRun THEN cur ELSE 0) * 10 + DigitVal(s[i]), acc)
       ELSE ScanRuns(s, i + 1, FALSE, 0, IF inRun THEN Append(acc, cur) ELSE acc)

DigitRuns(s) == ScanRuns(s, 1, FALSE, 0, <<>>)

\* Primary collation weight of a character under Intl collation with
\* sensitivity 'base': white space, then punctuation, then digits, then
\* letters; letters that differ only in case weigh the same.
CharRank(c) ==
  CASE c = " " -> 1
    [] c = "-" -> 2
    [] c \in Digits -> 10
    [] c \in {"a", "A"} -> 30
    [] c \in {"b", "B"} -> 31
    [] c \in {"c", "C"} -> 32
    [] OTHER -> 40

\* The collation elements of a string: <<weight, value>> pairs.  With
\* numeric: true a digit run is one element weighing as its number; without
\* it every digit is an element of its own.
RECURSIVE CollationKey(_, _, _, _, _, _)
CollationKey(s, numeric, i, inRun, cur, acc) ==
  IF i > Len(s) THEN (IF inRun THEN Append(acc, <<10, cur>>) ELSE acc)
  ELSE IF s[i] \in Digits
       THEN IF numeric
            THEN CollationKey(s, numeric, i + 1, TRUE,
                              (IF inRun THEN cur ELSE 0) * 10 + DigitVal(s[i]), acc)
            ELSE CollationKey(s, numeric, i + 1, FALSE, 0,
                              Append(acc, <<10, DigitVal(s[i])>>))
       ELSE CollationKey(s, numeric, i + 1, FALSE, 0,
                         Append(IF inRun THEN Append(acc, <<10, cur>>) ELSE acc,
                                <<CharRank(s[i]), 0>>))

RECURSIVE CompareKeys(_, _)
CompareKeys(k1, k2) ==
  IF k1 = <<>> /\ k2 = <<>> THEN 0
  ELSE IF k1 = <<>> THEN -1
  ELSE IF k2 = <<>> THEN 1
  ELSE IF Head(k1)[1] # Head(k2)[1]
       THEN (IF Head(k1)[1] < Head(k2)[1] THEN -1 ELSE 1)
  ELSE IF Head(k1)[2] # Head(k2)[2]
       THEN (IF Head(k1)[2] < Head(k2)[2] THEN -1 ELSE 1)
  ELSE CompareKeys(Tail(k1), Tail(k2))

\* a.localeCompare(b, 'ru-RU', { sensitivity: 'base', numeric })
localeCompare(a, b, numeric) ==
  CompareKeys(CollationKey(a, numeric, 1, FALSE, 0, <<>>),
              CollationKey(b, numeric, 1, FALSE, 0, <<>>))

extractGroupParts(value) ==
  [letters |-> Trim(StripDigits(value)), numbers |-> DigitRuns(value)]

\* The for loop of compareGroupNames over the embedded integers: the first
\* decisive position, or 0 when the loop ends or breaks without deciding.
RECURSIVE CompareNumbers(_, _, _)
CompareNumbers(an, bn, i) ==
  IF i > Len(an) /\ i > Len(bn) THEN 0
  ELSE IF i > Len(an) THEN -1
  ELSE IF i > Len(bn) THEN 1
  ELSE IF an[i] # bn[i] THEN an[i] - bn[i]
  ELSE CompareNumbers(an, bn, i + 1)

compareGroupNamesLexical(a, b) == localeCompare(a, b, FALSE)

compareGroupNames(a, b) ==
  LET aParts == extractGroupParts(a)
      bParts == extractGroupParts(b)
      letterDiff == localeCompare(aParts.letters, bParts.letters, FALSE)
      numberDiff == CompareNumbers(aParts.numbers, bParts.numbers, 1)
  IN  IF letterDiff # 0 THEN letterDiff
      ELSE IF numberDiff # 0 THEN numberDiff
      ELSE localeCompare(a, b, TRUE)

\* The three directories and the comparator each list is sorted with.
Directories == {"groups", "teachers", "cabinets"}

CompareIn(dir, a, b) ==
  CASE dir = "groups" -> compareGroupNames(a, b)
    [] dir = "teachers" -> localeCompare(a, b, FALSE)
    [] dir = "cabinets" -> localeCompare(a, b, TRUE)

\* Array.prototype.sort is stable: an element goes after the last one that
\* does not compare greater than it.
RECURSIVE InsertPos(_, _, _, _)
InsertPos(dir, x, s, j) ==
  IF j >= 1 /\ CompareIn(dir, s[j], x) > 0 THEN InsertPos(dir, x, s, j - 1) ELSE j

InsertSorted(dir, x, s) ==
  LET j == InsertPos(dir, x, s, Len(s))
  IN  SubSeq(s, 1, j) \o <<x>> \o SubSeq(s, j + 1, Len(s))

RECURSIVE SortFrom(_, _, _)
SortFrom(dir, s, acc) ==
  IF s = <<>> THEN acc ELSE SortFrom(dir, Tail(s), InsertSorted(dir, Head(s), acc))

\* [...list].sort(comparator) of sortGroups / sortNames / sortCabinets
SortList(dir, list) == SortFrom(dir, list, <<>>)

IsSortedIn(dir, s) ==
  \A i \in 1..Len(s) : \A j \in 1..Len(s) : i < j => CompareIn(dir, s[i], s[j]) <= 0

\* --------------------------------------------------------------- JS values
\* A decoded JSON value, as far as the code looks into it: its type; the
\* elements of an array of strings (or the characters of a string); for an
\* object its `message` field (when a string) and its `errors` field
\* ("none": absent or no array, "strings": an array whose first element is
\* the string errs0, "other": an array starting with something else); and
\* in fields the structured content of a stored cache: for the schedule
\* cache object a function from target keys to sequences of days, for the
\* notification cache array a sequence of cached notifications.
NoStr == <<>>

JsValue(t, items, hasMsg, msg, errs, errs0, fields) ==
  [t |-> t, items |-> items, hasMsg |-> hasMsg, msg |-> msg, errs |-> errs,
   errs0 |-> errs0, fields |-> fields]

JsUndefined == JsValue("undefined", <<>>, FALSE, NoStr, "none", NoStr, <<>>)
JsNull == JsValue("null", <<>>, FALSE, NoStr, "none", NoStr, <<>>)
JsNumber == JsValue("number", <<>>, FALSE, NoStr, "none", NoStr, <<>>)
JsString(chars) == JsValue("string", chars, FALSE, NoStr, "none", NoStr, <<>>)
JsArray(items) == JsValue("array", items, FALSE, NoStr, "none", NoStr, <<>>)
JsObject(hasMsg, msg, errs, errs0) == JsValue("object", <<>>, hasMsg, msg, errs, errs0, <<>>)
\* ScheduleCacheStore: Record<string, ScheduleDay[]>
JsStore(store) == JsValue("object", <<>>, FALSE, NoStr, "none", NoStr, store)
\* CachedNotification[]
JsNotifications(list) == JsValue("array", <<>>, FALSE, NoStr, "none", NoStr, list)

\* !value
IsFalsy(v) == v.t \in {"undefined", "null"} \/ (v.t = "string" /\ v.items = <<>>)

\* [...value]: the elements of an array, the characters of a string; any
\* other value is not iterable (TypeError).
IsIterable(v) == v.t \in {"array", "string"}

SpreadItems(v) ==
  IF v.t = "string" THEN [i \in 1..Len(v.items) |-> <<v.items[i]>>] ELSE v.items

\* ------------------------------------------------------------------ errors
\* A thrown value.  origin names the place that constructed the object, so
\* that "the same object" can be told from a new error with equal fields.
ErrorValue(name, message, status, payload, origin, hasResponse, respStatus, respData) ==
  [name |-> name, message |-> message, status |-> status, payload |-> payload,
   origin |-> origin, hasResponse |-> hasResponse, respStatus |-> respStatus,
   respData |-> respData]

NoStatus == 0 - 1

NoError == ErrorValue("none", NoStr, NoStatus, JsUndefined, "none", FALSE, NoStatus, JsUndefined)

\* new BackendError(message, status, payload)
BackendError(message, status, payload, origin) ==
  ErrorValue("BackendError", message, status, payload, origin, FALSE, NoStatus, JsUndefined)

\* The rejection of an AsyncStorage call.
StorageError == ErrorValue("Error", <<"storage failure">>, NoStatus, JsUndefined, "AsyncStorage",
                           FALSE, NoStatus, JsUndefined)

\* The TypeError of spreading a value that is not iterable.
SpreadTypeError == ErrorValue("TypeError", <<"not iterable">>, NoStatus, JsUndefined, "spread",
                              FALSE, NoStatus, JsUndefined)

\* What a try block came to: a value returned or an error thrown.
Returned(v) == [ok |-> TRUE, value |-> v, error |-> NoError]
Threw(e) == [ok |-> FALSE, value |-> JsUndefined, error |-> e]

\* --------------------------------------------------------------- transport
\* How an http request ends.  validateStatus is () => true, so a response of
\* any status resolves; a rejection is an AxiosError (with or without a
\* response attached) or some other thrown value.
HttpResponse(status, data) ==
  [kind |-> "response", status |-> status, data |-> data, error |-> NoError]

AxiosError(message, hasResponse, respStatus, respData) ==
  [kind |-> "rejected", status |-> NoStatus, data |-> JsUndefined,
   error |-> ErrorValue("AxiosError", message, NoStatus, JsUndefined, "axios",
                        hasResponse, respStatus, respData)]

OtherRejection ==
  [kind |-> "rejected", status |-> NoStatus, data |-> JsUndefined,
   error |-> ErrorValue("TypeError", <<"interceptor failed">>, NoStatus, JsUndefined, "thrown",
                        FALSE, NoStatus, JsUndefined)]

isAxiosError(error) == error.name = "AxiosError"

isSuccessful(status) == status >= 200 /\ status < 300

\* extractErrorMessage: [some |-> FALSE] stands for undefined.
NoMessage == [some |-> FALSE, text |-> NoStr]
SomeMessage(text) == [some |-> TRUE, text |-> text]

extractErrorMessageErrorsFirst(payload) ==
  IF IsFalsy(payload) THEN NoMessage
  ELSE IF payload.t = "string" THEN SomeMessage(payload.items)
  ELSE IF payload.t \in {"object", "array"}
       THEN IF payload.errs = "strings" THEN SomeMessage(payload.errs0)
            ELSE IF payload.hasMsg THEN SomeMessage(payload.msg)
            ELSE NoMessage
  ELSE NoMessage

extractErrorMessage(payload) ==
  IF IsFalsy(payload) THEN NoMessage
  ELSE IF payload.t = "string" THEN SomeMessage(payload.items)
  ELSE IF payload.t \in {"object", "array"}
       THEN IF payload.hasMsg THEN SomeMessage(payload.msg)
            ELSE IF payload.errs = "strings" THEN SomeMessage(payload.errs0)
            ELSE NoMessage
  ELSE NoMessage

DigitChar(d) ==
  CASE d = 0 -> "0" [] d = 1 -> "1" [] d = 2 -> "2" [] d = 3 -> "3" [] d = 4 -> "4"
    [] d = 5 -> "5" [] d = 6 -> "6" [] d = 7 -> "7" [] d = 8 -> "8" [] d = 9 -> "9"

\* `${status}`
RECURSIVE DecimalChars(_)
DecimalChars(n) ==
  IF n < 10 THEN <<DigitChar(n)>> ELSE Append(DecimalChars(n \div 10), DigitChar(n % 10))

StatusMessage(status) == <<"Backend responded with status ">> \o DecimalChars(status)

ensureSuccess(response) ==
  IF isSuccessful(response.status) THEN Returned(response.data)
  ELSE LET found == extractErrorMessage(response.data)
           message == IF found.some THEN found.text ELSE StatusMessage(response.status)
       IN  Threw(BackendError(message, response.status, response.data, "ensureSuccess"))

normalizeAxiosErrorWrapsAll(error) ==
  LET status == IF error.hasResponse THEN error.respStatus ELSE 0
      payload == IF error.hasResponse THEN error.respData ELSE JsUndefined
      found == extractErrorMessage(payload)
      message == IF found.some THEN found.text ELSE error.message
  IN  Threw(BackendError(message, status, payload, "normalizeAxiosError"))

normalizeAxiosError(error) ==
  IF isAxiosError(error)
  THEN LET status == IF error.hasResponse THEN error.respStatus ELSE 0
           payload == IF error.hasResponse THEN error.respData ELSE JsUndefined
           found == extractErrorMessage(payload)
           message == IF found.some THEN found.text ELSE error.message
       IN  Threw(BackendError(message, status, payload, "normalizeAxiosError"))
  ELSE Threw(error)

\* The body shared by fetchGroups, fetchTeachers, fetchCabinets, getCouples,
\* subscribe, ...: try { ensureSuccess(await http...) } catch { normalizeAxiosError }
backendCall(outcome) ==
  LET tried == IF outcome.kind = "response" THEN ensureSuccess(outcome) ELSE Threw(outcome.error)
  IN  IF tried.ok THEN tried ELSE normalizeAxiosError(tried.error)

\* ----------------------------------------------------------------- storage
\* An AsyncStorage item: absent, or a text that is the empty string, no JSON
\* at all, or the JSON text of the value val.
AbsentItem == [present |-> FALSE, json |-> "none", val |-> JsUndefined]
EmptyItem == [present |-> TRUE, json |-> "empty", val |-> JsUndefined]
GarbageItem == [present |-> TRUE, json |-> "invalid", val |-> JsUndefined]

\* JSON.stringify(value), stored
JsonItem(v) == [present |-> TRUE, json |-> "valid", val |-> v]

\* !cached, for the string | null that getItem resolves to
IsMissing(item) == ~item.present \/ item.json = "empty"

\* JSON.parse
JsonParses(item) == item.json = "valid"

\* ------------------------------------------------------- directory getters
\* cacheGroups / cacheTeachers / cacheCabinets: the item that replaces
\* `item` under the directory's cache key.
cacheDirectoryMerged(item, list) ==
  JsonItem(JsArray((IF item.present /\ item.json = "valid" THEN item.val.items ELSE <<>>) \o list))

cacheDirectoryOnce(item, list) ==
  IF item.present THEN item ELSE JsonItem(JsArray(list))

cacheDirectory(item, list) == JsonItem(JsArray(list))

\* getCachedGroups / getCachedTeachers / getCachedCabinets.  The getItem is
\* awaited outside the try: its rejection is thrown on.
getCachedDirectory(dir, item, readOk) ==
  IF ~readOk THEN Threw(StorageError)
  ELSE IF IsMissing(item) THEN Returned(JsNull)
  ELSE IF JsonParses(item) /\ IsIterable(item.val)
       THEN Returned(JsArray(SortList(dir, SpreadItems(item.val))))
  ELSE Returned(JsNull)

\* The catch block of getGroups / getTeachers / getCabinets, once the cache
\* has been read: if (cached) return cached; throw error.
fallbackNever(cached, error) == Threw(error)

fallbackToCache(cached, error) ==
  IF ~IsFalsy(cached) THEN Returned(cached) ELSE Threw(error)

\* getGroups / getTeachers / getCabinets: what the call comes to and the
\* item under the cache key afterwards.  outcome is how the http request
\* ends; writeOk and readOk say whether setItem and getItem resolve.
getDirectory(dir, outcome, writeOk, readOk, item) ==
  LET fetched == backendCall(outcome)
      sortable == fetched.ok /\ IsIterable(fetched.value)
      sorted == SortList(dir, SpreadItems(fetched.value))
      caught == IF ~fetched.ok THEN fetched.error
                ELSE IF ~sortable THEN SpreadTypeError
                ELSE StorageError
      cached == getCachedDirectory(dir, item, readOk)
  IN  IF sortable /\ writeOk
      THEN [result |-> Returned(JsArray(sorted)), store |-> cacheDirectory(item, sorted)]
      ELSE IF ~cached.ok THEN [result |-> cached, store |-> item]
      ELSE [result |-> fallbackToCache(cached.value, caught), store |-> item]

\* Whether the call reaches the setItem / the getItem.
WritesCache(outcome) == LET f == backendCall(outcome) IN f.ok /\ IsIterable(f.value)

\* The names and the answers of the backend the model draws from.
DirNames == {<<"b", "-", "2">>, <<"B", "-", "1", "0">>}

RECURSIVE SeqsUpTo(_, _)
SeqsUpTo(S, n) ==
  IF n = 0 THEN {<<>>}
  ELSE LET shorter == SeqsUpTo(S, n - 1)
       IN  shorter \cup {Append(q, x) : q \in {r \in shorter : Len(r) = n - 1}, x \in S}

BackendLists == SeqsUpTo(DirNames, MaxListLen)

DirOutcomes ==
  {HttpResponse(200, JsArray(l)) : l \in BackendLists}
  \cup {HttpResponse(299, JsArray(<<>>)),
        HttpResponse(200, JsObject(FALSE, NoStr, "none", NoStr)),
        HttpResponse(300, JsString(<<"moved">>)),
        HttpResponse(404, JsObject(TRUE, <<"not found">>, "none", NoStr)),
        HttpResponse(500, JsNull),
        HttpResponse(199, JsString(<<>>)),
        HttpResponse(400, JsObject(FALSE, NoStr, "other", NoStr)),
        HttpResponse(422, JsObject(FALSE, NoStr, "strings", <<"invalid">>)),
        HttpResponse(422, JsObject(TRUE, <<"rejected">>, "strings", <<"invalid">>)),
        AxiosError(<<"Network Error">>, FALSE, NoStatus, JsUndefined),
        AxiosError(<<"bad response">>, TRUE, 502, JsObject(FALSE, NoStr, "strings", <<"upstream">>)),
        OtherRejection}

\* ------------------------------------------------------------ schedule cache
\* new Date(value).getTime(), in days since the epoch: the local midnight of
\* a parseable date string (negative for a date before 1970), NaN for any
\* other string.
DateStrings == {"not-a-date", "1969-12-31", "day1", "day2"}

DateTime(value) ==
  CASE value = "1969-12-31" -> [nan |-> FALSE, time |-> -1]
    [] value = "day1" -> [nan |-> FALSE, time |-> 1]
    [] value = "day2" -> [nan |-> FALSE, time |-> 2]
    [] OTHER -> [nan |-> TRUE, time |-> 0]

getDateValue(value) ==
  LET t == DateTime(value) IN IF t.nan THEN 0 ELSE t.time

\* getTodayStart, at the time clock: the local midnight of the current day.
getTodayStart(clock) == clock

RECURSIVE FilterDays(_, _)
FilterDays(days, todayStart) ==
  IF days = <<>> THEN <<>>
  ELSE LET dayTime == getDateValue(Head(days).date)
           rest == FilterDays(Tail(days), todayStart)
       IN  IF (IF dayTime = 0 THEN TRUE ELSE dayTime >= todayStart)
           THEN <<Head(days)>> \o rest
           ELSE rest

filterFutureScheduleDaysKeepsAll(days, clock) == days

filterFutureScheduleDaysDated(days, clock) ==
  SelectSeq(FilterDays(days, getTodayStart(clock)), LAMBDA day : ~DateTime(day.date).nan)

filterFutureScheduleDays(days, clock) == FilterDays(days, getTodayStart(clock))

EmptyStore == JsStore(<<>>)

\* readScheduleCache, for the item the getItem finds; readOk says whether
\* the getItem resolves.  Every failure is caught and gives {}.
readScheduleCache(item, readOk) ==
  IF ~readOk \/ IsMissing(item) \/ ~JsonParses(item) THEN EmptyStore
  ELSE IF ~IsFalsy(item.val) /\ item.val.t \in {"object", "array"} THEN item.val
  ELSE EmptyStore

\* writeScheduleCache: the item under the key once the setItem was issued;
\* a rejected setItem is caught and leaves the item as it was.
writeScheduleCache(item, cache, writeOk) ==
  IF writeOk THEN JsonItem(cache) ELSE item

\* cache[targetKey] is defined
HasKey(cache, targetKey) == targetKey \in DOMAIN cache.fields

\* cache[targetKey] = days
WithKey(cache, targetKey, days) ==
  [cache EXCEPT !.fields =
     [k \in (DOMAIN cache.fields) \cup {targetKey} |->
        IF k = targetKey THEN days ELSE cache.fields[k]]]

\* delete cache[targetKey]
WithoutKey(cache, targetKey) ==
  LET left == (DOMAIN cache.fields) \ {targetKey}
  IN  [cache EXCEPT !.fields = IF left = {} THEN <<>> ELSE [k \in left |-> cache.fields[k]]]

\* The branch both getCachedScheduleForTarget and persistScheduleForTarget
\* end in: store the filtered days, or remove the key when none is left.
storeAlways(cache, targetKey, filtered) == WithKey(cache, targetKey, filtered)

\* The same branch, had it written the target's own entry only.
storeOnlyOwn(cache, targetKey, filtered) ==
  IF Len(filtered) > 0 THEN WithKey(EmptyStore, targetKey, filtered) ELSE EmptyStore

storeOrRemove(cache, targetKey, filtered) ==
  IF Len(filtered) > 0 THEN WithKey(cache, targetKey, filtered)
  ELSE WithoutKey(cache, targetKey)

\* ------------------------------------------------------ notifications cache
\* ONE_WEEK_MS, in days.
ONE_WEEK_MS == 7

\* A notification, as far as the cache looks at it, and the entry the cache
\* keeps for it.
Notification(id) == [id |-> id]

CachedNotification(id, cachedAt) == [id |-> id, cachedAt |-> cachedAt]

writeNotificationsCacheAdditive(item, notifications, writeOk, clock) ==
  IF writeOk
  THEN JsonItem(JsNotifications(
         (IF JsonParses(item) /\ item.val.t = "array" THEN item.val.fields ELSE <<>>)
           \o [i \in 1..Len(notifications) |->
                 CachedNotification(notifications[i].id, clock)]))
  ELSE item

\* A write that reads the clock anew for every entry, the clock moving on
\* meanwhile.
writeNotificationsCacheClockPerEntry(item, notifications, writeOk, clock) ==
  IF writeOk
  THEN JsonItem(JsNotifications(
         [i \in 1..Len(notifications) |->
            CachedNotification(notifications[i].id, clock + i - 1)]))
  ELSE item

\* writeNotificationsCache: the item under the key once the setItem was
\* issued; every entry is stamped with the time of the write, and a
\* rejected setItem is caught and leaves the item as it was.
writeNotificationsCache(item, notifications, writeOk, clock) ==
  IF writeOk
  THEN JsonItem(JsNotifications(
         [i \in 1..Len(notifications) |-> CachedNotification(notifications[i].id, clock)]))
  ELSE item

\* cached.filter(item => now - item.cachedAt < ONE_WEEK_MS)
RECURSIVE FilterFresh(_, _)
FilterFresh(cached, clock) ==
  IF cached = <<>> THEN <<>>
  ELSE LET rest == FilterFresh(Tail(cached), clock)
       IN  IF clock - Head(cached).cachedAt < ONE_WEEK_MS
           THEN <<Head(cached)>> \o rest ELSE rest

\* validNotifications.map(({ cachedAt, ...notification }) => notification)
WithoutCachedAt(cached) == [i \in 1..Len(cached) |-> Notification(cached[i].id)]

\* readNotificationsCache at the time clock: the list it returns and the
\* item it leaves under the key.  An element of the array that has no
\* cachedAt (items) has the age NaN and is filtered out; every failure is
\* caught and gives [].
readNotificationsCache(item, readOk, writeOk, clock) ==
  IF ~readOk \/ IsMissing(item) \/ ~JsonParses(item) \/ item.val.t # "array"
  THEN [result |-> <<>>, item |-> item]
  ELSE LET cached == item.val.fields
           validNotifications == FilterFresh(cached, clock)
       IN  [result |-> WithoutCachedAt(validNotifications),
            item |-> IF Len(validNotifications) # Len(cached) + Len(item.val.items)
                     THEN writeNotificationsCache(item, validNotifications, writeOk, clock)
                     ELSE item]

\* --------------------------------------------------------------- schedule
Targets == {[type |-> "group", name |-> "A"], [type |-> "group", name |-> "B"]}

\* `${target.type}:${target.name}`
TargetKey(target) == <<target.type, target.name>>

NoKey == <<>>

\* A ScheduleDay, as far as the cache and the request guard look at it: its
\* date key, and owner, the name whose schedule the backend sent it in.
ScheduleDay(date, owner) == [date |-> date, owner |-> owner]

\* Object.entries(response ?? {}).map(...): one day per date key, in the
\* order of the keys.
RECURSIVE NormalizeDays(_, _)
NormalizeDays(dateKeys, owner) ==
  IF dateKeys = <<>> THEN <<>>
  ELSE <<ScheduleDay(Head(dateKeys), owner)>> \o NormalizeDays(Tail(dateKeys), owner)

\* normalized.sort((a, b) => getDateValue(a.date) - getDateValue(b.date))
RECURSIVE DayInsertPos(_, _, _)
DayInsertPos(day, s, j) ==
  IF j >= 1 /\ getDateValue(s[j].date) - getDateValue(day.date) > 0
  THEN DayInsertPos(day, s, j - 1) ELSE j

RECURSIVE SortDaysFrom(_, _)
SortDaysFrom(s, acc) ==
  IF s = <<>> THEN acc
  ELSE LET j == DayInsertPos(Head(s), acc, Len(acc))
       IN  SortDaysFrom(Tail(s), SubSeq(acc, 1, j) \o <<Head(s)>> \o SubSeq(acc, j + 1, Len(acc)))

SortDays(days) == SortDaysFrom(days, <<>>)

\* The bodies /couples/{name} answers with: the date keys of the object.
CouplesBodies == {<<>>, <<"day1">>, <<"day2", "day1">>, <<"not-a-date">>}

JsCouples(dateKeys) == JsValue("object", dateKeys, FALSE, NoStr, "none", NoStr, <<>>)

CouplesOutcomes ==
  {HttpResponse(200, JsCouples(b)) : b \in CouplesBodies}
  \cup {HttpResponse(404, JsObject(TRUE, <<"not found">>, "none", NoStr)),
        AxiosError(<<"Network Error">>, FALSE, NoStatus, JsUndefined)}

\* The values of scheduleError.
NoScheduleError == "null"
ErrorNoSchedule == "schedule is absent"
ErrorShowingCache == "could not update the schedule, showing cached data"
ErrorLoadFailed == "could not load the schedule"

\* ------------------------------------------------------------ lesson cards
\* The strings of a couple are sequences of characters.  Cyrillic letters
\* are written in transliteration: "Ka" and "ka" are the Cyrillic capital
\* and small letter that look like the Latin K and k.
NoText == [null |-> TRUE, s |-> <<>>]

Text(s) == [null |-> FALSE, s |-> s]

\* The title of the class hour, and the cabinet that marks it.
ClassHourTitle == <<"Ka", "l", "a", "s", "s", "n", "y", "j", " ", "ch", "a", "s">>

ClassHourMark == <<"Ka">>

\* The title of a couple that has no lesson.
DashTitle == <<"-">>

\* String.prototype.toLowerCase
LowerChar(c) ==
  CASE c = "Ka" -> "ka"
    [] c = "M" -> "m"
    [] OTHER -> c

toLowerCase(s) == [i \in 1..Len(s) |-> LowerChar(s[i])]

\* A couple of the backend's answer: couple, cabinet and lesson, each a
\* string or missing.
RawCouple(couple, cabinet, lesson) ==
  [couple |-> couple, cabinet |-> cabinet, lesson |-> lesson]

\* The number of a lesson: a number, or the string the backend sent.
PairNumber(n) == [isNumber |-> TRUE, n |-> n, s |-> <<>>]

PairLabel(s) == [isNumber |-> FALSE, n |-> 0, s |-> s]

\* The couple the map callback of loadSchedule makes of payload.couples[index]
\* (index counts from 0); id stands for `${dateKey}-${coupleIdSuffix}-${index}`.
NormalizeCouple(couple, index) ==
  LET coupleRaw == IF couple.couple.null THEN <<>> ELSE Trim(couple.couple.s)
      coupleMatch == DigitRuns(coupleRaw)
      pairNumber == IF coupleMatch # <<>> THEN PairNumber(coupleMatch[1])
                    ELSE IF coupleRaw # <<>> THEN PairLabel(coupleRaw)
                    ELSE PairNumber(index + 1)
      cabinetRaw == IF couple.cabinet.null THEN <<>> ELSE Trim(couple.cabinet.s)
      normalizedCabinet == IF cabinetRaw = ClassHourMark THEN ClassHourMark ELSE cabinetRaw
      lesson == IF couple.lesson.null THEN <<>> ELSE Trim(couple.lesson.s)
      normalizedTitle == IF normalizedCabinet = ClassHourMark THEN ClassHourTitle
                         ELSE IF lesson # <<>> THEN lesson ELSE DashTitle
  IN  [id |-> index, number |-> pairNumber, title |-> normalizedTitle,
       room |-> normalizedCabinet]

\* (payload.couples ?? []).map(...)
NormalizeCouples(payload) ==
  [i \in 1..Len(payload) |-> NormalizeCouple(payload[i], i - 1)]

\* `${lesson.number}`.trim()
NumberKey(number) == IF number.isNumber THEN DecimalChars(number.n) ELSE Trim(number.s)

\* The group key with the title taken as it is written.
GroupKeyExactTitle(lesson) == NumberKey(lesson.number) \o <<"_", "_">> \o Trim(lesson.title)

\* `${numberKey}__${titleKey}` of a lesson.
GroupKey(lesson) ==
  NumberKey(lesson.number) \o <<"_", "_">> \o toLowerCase(Trim(lesson.title))

\* The card of a lesson that opens a group: the lesson, and the ids of the
\* lessons grouped under it.
LessonCard(lesson) ==
  [number |-> lesson.number, title |-> lesson.title, room |-> lesson.room,
   groupedLessons |-> <<lesson.id>>]

\* The forEach of currentScheduleList: a lesson joins the card of the first
\* lesson with its group key, or opens a card of its own.
RECURSIVE GroupLessons(_, _)
GroupLessons(lessons, groups) ==
  IF lessons = <<>> THEN groups
  ELSE LET lesson == Head(lessons)
           same == {j \in 1..Len(groups) : GroupKey(groups[j]) = GroupKey(lesson)}
       IN  IF same # {}
           THEN LET j == CHOOSE k \in same : TRUE
                IN  GroupLessons(Tail(lessons),
                      [groups EXCEPT ![j].groupedLessons = Append(@, lesson.id)])
           ELSE GroupLessons(Tail(lessons), Append(groups, LessonCard(lesson)))

\* getSortOrder, in halves: 7 stands for 3.5.
getSortOrderByNumber(lesson) ==
  IF lesson.number.isNumber THEN 2 * lesson.number.n ELSE 2 * 999

getSortOrder(lesson) ==
  LET isClassHour == \/ lesson.number = PairLabel(ClassHourMark)
                     \/ lesson.room = ClassHourMark
                     \/ lesson.title = ClassHourTitle
  IN  IF isClassHour THEN 7 ELSE getSortOrderByNumber(lesson)

\* groups.sort((a, b) => getSortOrder(a) - getSortOrder(b)); the sort is
\* stable.
RECURSIVE CardInsertPos(_, _, _)
CardInsertPos(card, s, j) ==
  IF j >= 1 /\ getSortOrder(s[j]) - getSortOrder(card) > 0
  THEN CardInsertPos(card, s, j - 1) ELSE j

RECURSIVE SortCardsFrom(_, _)
SortCardsFrom(s, acc) ==
  IF s = <<>> THEN acc
  ELSE LET j == CardInsertPos(Head(s), acc, Len(acc))
       IN  SortCardsFrom(Tail(s), SubSeq(acc, 1, j) \o <<Head(s)>> \o SubSeq(acc, j + 1, Len(acc)))

\* currentScheduleList of a day with these couples.
ScheduleList(lessons) == SortCardsFrom(GroupLessons(lessons, <<>>), <<>>)

\* The couples the backend sends: numbers 3, 4 and 5, the class-hour mark or
\* a room as cabinet, a lesson or the class hour's title in small letters;
\* a couple with no field at all; a couple padded with white space.
RawCouples ==
  {RawCouple(Text(<<couple>>), Text(cabinet), Text(lesson)) :
     couple \in {"3", "4", "5"}, cabinet \in {ClassHourMark, <<"1">>},
     lesson \in {<<"M">>, toLowerCase(ClassHourTitle)}}
  \cup {RawCouple(NoText, NoText, NoText),
        RawCouple(Text(<<" ", "Ka", " ">>), Text(<<" ", "1", " ">>), Text(<<" ">>))}

\* ------------------------------------------------------------ device token
\* messaging.AuthorizationStatus, as the names of its values.
AuthorizationStatuses ==
  {"NOT_DETERMINED", "DENIED", "AUTHORIZED", "PROVISIONAL", "EPHEMERAL"}

isAuthorizedAlways(status) == TRUE

isAuthorized(status) == status = "AUTHORIZED" \/ status = "PROVISIONAL"

\* The tokens the push provider hands out; the empty string is one of them.
ProviderTokens == {<<>>, <<"a">>, <<"b">>, <<"c">>}

\* What a getDeviceToken call meets: whether the getItem of the cache key
\* resolves, whether Firebase is initialised and the device registers,
\* what hasPermission and requestPermission answer, whether getToken
\* resolves and with what, and whether the setItem resolves.
TokenEnvs ==
  [readOk : BOOLEAN, registerOk : BOOLEAN, currentStatus : AuthorizationStatuses,
   requestedStatus : AuthorizationStatuses, tokenOk : BOOLEAN, token : ProviderTokens,
   writeOk : BOOLEAN]

\* No call of hasPermission or requestPermission was made.
NoPermissionCall ==
  [ok |-> FALSE, hasPermission |-> FALSE, currentStatus |-> "NOT_DETERMINED",
   requestPermission |-> FALSE, requestedStatus |-> "NOT_DETERMINED"]

\* ensurePermissions: whether it returns, which of hasPermission and
\* requestPermission it called, and what they answered.
ensurePermissions(env) ==
  IF ~env.registerOk THEN NoPermissionCall
  ELSE IF isAuthorized(env.currentStatus)
  THEN [NoPermissionCall EXCEPT !.ok = TRUE, !.hasPermission = TRUE,
                                !.currentStatus = env.currentStatus]
  ELSE [ok |-> isAuthorized(env.requestedStatus), hasPermission |-> TRUE,
        currentStatus |-> env.currentStatus, requestPermission |-> TRUE,
        requestedStatus |-> env.requestedStatus]

cacheTokenNever(item, token, writeOk) == [ok |-> TRUE, item |-> item]

\* cacheToken: whether it returns, and the item it leaves under the key.
cacheToken(item, token, writeOk) ==
  IF token = <<>> THEN [ok |-> TRUE, item |-> item]
  ELSE IF writeOk THEN [ok |-> TRUE, item |-> Text(token)]
  ELSE [ok |-> FALSE, item |-> item]

\* The record of a getDeviceToken call: what it was called with and found
\* (the item under the key, whether the getItem resolved), which of the
\* permission and provider calls it made and what they answered, and how it
\* ended: with a token (returned) or with an error.
TokenCall(forceRefresh, item, readOk, permissions, askedProvider, returned, value) ==
  [kind |-> "getDeviceToken", forceRefresh |-> forceRefresh, before |-> item,
   readOk |-> readOk, hasPermission |-> permissions.hasPermission,
   currentStatus |-> permissions.currentStatus,
   requestPermission |-> permissions.requestPermission,
   requestedStatus |-> permissions.requestedStatus,
   getToken |-> askedProvider, returned |-> returned, value |-> value]

\* getDeviceToken(forceRefresh), start to end: the record of the call and
\* the item it leaves under DEVICE_TOKEN_CACHE_KEY.
getDeviceToken(item, forceRefresh, env) ==
  LET readOk == forceRefresh \/ env.readOk
      permissions == ensurePermissions(env)
      cached == cacheToken(item, env.token, env.writeOk)
  IN  IF ~forceRefresh /\ ~env.readOk
      THEN [call |-> TokenCall(forceRefresh, item, FALSE, NoPermissionCall,
                               FALSE, FALSE, <<>>),
            item |-> item]
      ELSE IF ~forceRefresh /\ ~item.null /\ item.s # <<>>
      THEN [call |-> TokenCall(forceRefresh, item, TRUE, NoPermissionCall,
                               FALSE, TRUE, item.s),
            item |-> item]
      ELSE IF ~permissions.ok
      THEN [call |-> TokenCall(forceRefresh, item, readOk, permissions,
                               FALSE, FALSE, <<>>),
            item |-> item]
      ELSE IF ~env.tokenOk
      THEN [call |-> TokenCall(forceRefresh, item, readOk, permissions,
                               TRUE, FALSE, <<>>),
            item |-> item]
      ELSE [call |-> TokenCall(forceRefresh, item, readOk, permissions,
                               TRUE, cached.ok, IF cached.ok THEN env.token ELSE <<>>),
            item |-> cached.item]

\* ------------------------------------------------------------ subscriptions
\* What can be subscribed to.
SubscriptionTitles == {"A", "B"}

\* An entry the user added, `${type}-${title}`, and an entry the backend
\* listed, `remote-${title}`, which has no type.
LocalSubscription(type, title) == [id |-> <<type, title>>, type |-> type, title |-> title]

RemoteSubscription(title) == [id |-> <<"remote", title>>, type |-> "none", title |-> title]

NoSubscription == [id |-> <<>>, type |-> "none", title |-> "none"]

\* The lists /subscribes/{token} answers with.
ActiveSubscriptions == {<<>>, <<"A">>}

\* The lists it answers with for a device that holds nine subscriptions,
\* and ten.
ManyActiveSubscriptions ==
  {<<"A", "S2", "S3", "S4", "S5", "S6", "S7", "S8", "S9">>,
   <<"A", "S2", "S3", "S4", "S5", "S6", "S7", "S8", "S9", "S10">>}

\* The places in the list of the entries the user removes.
RemovedPlaces == {1, 2}

\* prev.length >= 10
SubscriptionLimit == 10

\* subscription.title === title && (subscription.type ? subscription.type === type : true)
AlreadyExists(prev, type, title) ==
  \E i \in 1..Len(prev) :
    prev[i].title = title /\ (prev[i].type # "none" => prev[i].type = type)

\* A guard that lets every call through.
InCooldownNever(cooldown) == FALSE

\* if (subscriptionCooldown > 0) return
InCooldown(cooldown) == cooldown > 0

\* An updater that appends whatever it is given.
AddedToAlways(prev, type, title) == Append(prev, LocalSubscription(type, title))

\* The updater handleAddSubscription gives setSubscriptions.
AddedTo(prev, type, title) ==
  IF Len(prev) >= SubscriptionLimit \/ AlreadyExists(prev, type, title) THEN prev
  ELSE Append(prev, LocalSubscription(type, title))

\* prev.filter(s => s.id !== subscription.id)
RECURSIVE RemovedFrom(_, _)
RemovedFrom(prev, subscription) ==
  IF prev = <<>> THEN <<>>
  ELSE IF Head(prev).id = subscription.id THEN RemovedFrom(Tail(prev), subscription)
  ELSE <<Head(prev)>> \o RemovedFrom(Tail(prev), subscription)

\* The list after a handler's request failed, was rejected or was not sent,
\* had the handler undone its change.
afterFailureRolledBack(list, op) ==
  IF op.kind = "add" THEN RemovedFrom(list, op.entry) ELSE Append(list, op.entry)

\* The list after a handler's request failed, was rejected or was not sent:
\* the handlers log or alert and leave the list alone.
afterFailure(list, op) == list

\* What the getDeviceToken of a handler meets: the permission granted or
\* denied, a token or an empty one.
HandlerTokenEnvs ==
  [readOk : {TRUE}, registerOk : {TRUE}, currentStatus : {"AUTHORIZED", "DENIED"},
   requestedStatus : {"DENIED"}, tokenOk : {TRUE}, token : {<<>>, <<"a">>},
   writeOk : {TRUE}]

\* How subscribe and deleteSubscription end: with success true, with
\* success false, or with an error.
RequestOutcomes == {"success", "rejected", "threw"}

\* ------------------------------------------------------------------- state
VARIABLES
  directory,   \* the directory the getter calls of this run are for
  dirStore,    \* the AsyncStorage item under that directory's cache key
  dirLast,     \* the latest getter call: its inputs and what it came to
  dirPrev,     \* the call before it, when it fetched, sorted and cached a list
  now,         \* the clock: the current local day
  scheduleItem,            \* the AsyncStorage item under SCHEDULE_CACHE_KEY
  scheduleRequestKeyRef,   \* scheduleRequestKeyRef.current
  scheduleDays,            \* the React state of HomeScreen ...
  selectedScheduleIndex,
  scheduleError,
  scheduleLoading,
  calls,       \* the loadSchedule calls, in the order they were started
  started,     \* how many of them were started
  notificationsItem,   \* the AsyncStorage item under NOTIFICATIONS_CACHE_KEY
  cacheRead,   \* the latest read of a cache: the reader, the item, the result
  cacheWrite,  \* the latest writeNotificationsCache of a fetched list that
               \* reached storage: the list and the time
  payloadCouples,      \* payload.couples of the day the backend sent
  currentCouples,      \* currentSchedule.couples, the normalised couples
  currentScheduleList, \* the lesson cards of the day, as displayed
  listStep,    \* how far the day got: received, normalized, listed
  responseKeys,    \* the date keys of the answer of /couples/{name}
  normalizedDays,  \* normalized of loadSchedule: the sorted days of the answer
  cachedRead,      \* the latest getCachedScheduleForTarget: whether its read
                   \* resolved, and the days it returned
  daysStep,    \* how far the answer got: received, normalized, persisted,
               \* hydrated
  tokenItem,   \* the AsyncStorage item under DEVICE_TOKEN_CACHE_KEY
  lastToken,   \* the latest call of the device token cache
  webItem,     \* the AsyncStorage item under WEB_DEVICE_TOKEN_KEY
  webCalls,    \* the getWebDeviceToken calls
  webClock,    \* Date.now(), in milliseconds since the screen was mounted
  platform,    \* Platform.OS
  activeSubscriptions,   \* the titles /subscribes/{token} answers with, until it has
  subscriptions,         \* the React state of HomeScreen ...
  subscriptionCooldown,
  subscriptionsLoad,     \* whether loadActiveSubscriptions has set the list, once it has ended
  subsOps,     \* the calls of handleAddSubscription and handleRemoveSubscription
  persists,    \* per target, the persistScheduleForTarget of its loadSchedule
  lastWriter   \* the target whose persist wrote the schedule cache last

dirVars == <<directory, dirStore, dirLast, dirPrev>>

screenVars == <<scheduleDays, selectedScheduleIndex, scheduleError, scheduleLoading>>

schedVars == <<now, scheduleItem, scheduleRequestKeyRef, screenVars, calls, started>>

cacheVars == <<notificationsItem, cacheRead, cacheWrite>>

cardVars == <<payloadCouples, currentCouples, currentScheduleList, listStep>>

daysVars == <<responseKeys, normalizedDays, cachedRead, daysStep>>

tokenVars == <<tokenItem, lastToken>>

webVars == <<webItem, webCalls, webClock>>

subsVars == <<platform, activeSubscriptions, subscriptions, subscriptionCooldown, subscriptionsLoad, subsOps>>

persistVars == <<persists, lastWriter>>

homeVars == <<cardVars, daysVars, tokenVars, webVars, subsVars, persistVars>>

vars == <<dirVars, schedVars, cacheVars, homeVars>>

NoCall ==
  [made |-> FALSE, outcome |-> OtherRejection, writeOk |-> TRUE, readOk |-> TRUE,
   before |-> AbsentItem, fetched |-> Threw(NoError), result |-> Threw(NoError)]

NoFreshCall == [fresh |-> FALSE, list |-> <<>>, value |-> <<>>]

\* What dirPrev keeps of a call: the list the backend sent and the list the
\* call returned, for a call that went through fetch, sort and cache.
FreshSummary(call) ==
  IF call.made /\ WritesCache(call.outcome) /\ call.writeOk
  THEN [fresh |-> TRUE, list |-> SpreadItems(call.outcome.data), value |-> call.result.value.items]
  ELSE NoFreshCall

CallIds == 1..MaxCalls

\* A loadSchedule call: where it waits (pc), its target, the `cache` it read
\* and the days it filtered from it (hydrated) while it still needs them,
\* the days it built from the response (normalized), cacheApplied, whether
\* its fetch succeeded, and, until it is done, the day it was started on.
IdleCall ==
  [pc |-> "idle", target |-> [type |-> "none", name |-> "none"], cache |-> EmptyStore,
   hydrated |-> <<>>, normalized |-> <<>>, cacheApplied |-> FALSE, fetchOk |-> FALSE,
   startDay |-> 0]

\* Nothing stored, nothing called, nothing shown.
DirIdle ==
  /\ dirStore = AbsentItem
  /\ dirLast = NoCall
  /\ dirPrev = NoFreshCall

SchedIdle ==
  /\ now = 1
  /\ scheduleItem = AbsentItem
  /\ scheduleRequestKeyRef = NoKey
  /\ scheduleDays = <<>>
  /\ selectedScheduleIndex = 0
  /\ scheduleError = NoScheduleError
  /\ scheduleLoading = FALSE
  /\ calls = [c \in CallIds |-> IdleCall]
  /\ started = 0

NoWrite == [made |-> FALSE, list |-> <<>>, at |-> 0]

NoRead ==
  [reader |-> "none", readOk |-> TRUE, item |-> AbsentItem, result |-> Threw(NoError)]

CacheIdle ==
  /\ notificationsItem = AbsentItem
  /\ cacheRead = NoRead
  /\ cacheWrite = NoWrite

CardsIdle ==
  /\ payloadCouples = <<>>
  /\ currentCouples = <<>>
  /\ currentScheduleList = <<>>
  /\ listStep = "listed"

NoCachedRead == [readOk |-> TRUE, days |-> <<>>]

DaysIdle ==
  /\ responseKeys = <<>>
  /\ normalizedDays = <<>>
  /\ cachedRead = NoCachedRead
  /\ daysStep = "hydrated"

NoTokenCall ==
  [kind |-> "none", forceRefresh |-> FALSE, before |-> NoText, readOk |-> TRUE,
   hasPermission |-> FALSE, currentStatus |-> "NOT_DETERMINED",
   requestPermission |-> FALSE, requestedStatus |-> "NOT_DETERMINED",
   getToken |-> FALSE, returned |-> FALSE, value |-> <<>>]

TokenIdle ==
  /\ tokenItem = NoText
  /\ lastToken = NoTokenCall

\* `web-${Date.now()}`, and the null of a key that holds nothing.
WebToken(time) == [null |-> FALSE, time |-> time]

NoWebToken == [null |-> TRUE, time |-> 0]

WebCallIds == 1..MaxWebCalls

\* A getWebDeviceToken call: where it waits (pc), whether its getItem and
\* setItem resolve, what the getItem gave, the token it made, and, once it
\* is done, the token it returned.
IdleWebCall ==
  [pc |-> "idle", readOk |-> TRUE, writeOk |-> TRUE, cached |-> NoWebToken,
   fresh |-> NoWebToken, result |-> NoWebToken]

WebIdle ==
  /\ webItem = NoWebToken
  /\ webCalls = [c \in WebCallIds |-> IdleWebCall]
  /\ webClock = 0

SubsOpIds == 1..MaxOps

\* A call of a subscription handler: which handler, where it waits (pc),
\* the entry it is about, whether its updater changed the list, and how its
\* request ended or why none was sent.
IdleOp ==
  [kind |-> "none", pc |-> "idle", entry |-> NoSubscription, changed |-> FALSE,
   request |-> "none"]

SubsIdle ==
  /\ platform = "android"
  /\ activeSubscriptions = <<>>
  /\ subscriptions = <<>>
  /\ subscriptionCooldown = 0
  /\ subscriptionsLoad = "not loaded"
  /\ subsOps = [c \in SubsOpIds |-> IdleOp]

\* The persist of a load: where it waits (pc), whether its getItem and its
\* setItem resolve, the days it was given, the cache it read, the days it
\* kept after filtering, and whether the persist of the other target was
\* between its read and its write at some time this one was.
IdlePersist ==
  [pc |-> "idle", readOk |-> TRUE, writeOk |-> TRUE, days |-> <<>>, cache |-> EmptyStore,
   kept |-> <<>>, overlapped |-> FALSE]

PersistIdle ==
  /\ persists = [t \in Targets |-> IdlePersist]
  /\ lastWriter = [type |-> "group", name |-> "A"]

HomeIdle == CardsIdle /\ DaysIdle /\ TokenIdle /\ WebIdle /\ SubsIdle /\ PersistIdle

DirInit ==
  /\ directory \in Directories
  /\ DirIdle
  /\ SchedIdle
  /\ CacheIdle
  /\ HomeIdle

\* One call of getGroups / getTeachers / getCabinets, start to end.
GetDirectory ==
  \E outcome \in DirOutcomes :
    \E writeOk \in (IF WritesCache(outcome) THEN BOOLEAN ELSE {TRUE}) :
      \E readOk \in (IF WritesCache(outcome) /\ writeOk THEN {TRUE} ELSE BOOLEAN) :
        LET got == getDirectory(directory, outcome, writeOk, readOk, dirStore)
        IN  /\ dirStore' = got.store
            /\ dirLast' = [made |-> TRUE, outcome |-> outcome, writeOk |-> writeOk,
                           readOk |-> readOk, before |-> dirStore,
                           fetched |-> backendCall(outcome), result |-> got.result]
            /\ dirPrev' = FreshSummary(dirLast)
            /\ UNCHANGED <<directory, schedVars, cacheVars, homeVars>>

DirNext == GetDirectory

SpecDir == DirInit /\ [][DirNext]_vars

\* ---------------------------------------------------------- loadSchedule
\* AsyncStorage serves its calls in the order they are issued, so a getItem
\* sees, and a setItem changes, the item as it is when the call is issued;
\* the awaiting code goes on in a later step.

SchedInit ==
  /\ directory = "groups"
  /\ DirIdle
  /\ SchedIdle
  /\ CacheIdle
  /\ HomeIdle

\* loadSchedule(target) up to its first await: the request key, loading and
\* error are set, and getCachedScheduleForTarget issues the cache read.
StartLoad(target) ==
  /\ started < MaxCalls
  /\ \E readOk \in BOOLEAN :
       calls' = [calls EXCEPT ![started + 1] =
                   [IdleCall EXCEPT !.pc = "hydrate", !.target = target,
                                    !.cache = readScheduleCache(scheduleItem, readOk),
                                    !.startDay = now]]
  /\ started' = started + 1
  /\ scheduleRequestKeyRef' = TargetKey(target)
  /\ scheduleLoading' = TRUE
  /\ scheduleError' = NoScheduleError
  /\ UNCHANGED <<dirVars, homeVars, cacheVars, now, scheduleItem, scheduleDays, selectedScheduleIndex>>

\* scheduleRequestKeyRef.current === targetKey: the guard on every change
\* loadSchedule makes to the screen after an await.
RequestAlwaysCurrent(targetKey) == TRUE

RequestIsCurrent(targetKey) == scheduleRequestKeyRef = targetKey

\* The catch of loadSchedule: the days it leaves on the screen.
DaysClearedOnFailure(cacheApplied, days) == <<>>

DaysAfterFailure(cacheApplied, days) == IF cacheApplied THEN days ELSE <<>>

\* The catch of loadSchedule: the error it sets.
ErrorAfterFailure(cacheApplied) ==
  IF cacheApplied THEN ErrorShowingCache ELSE ErrorLoadFailed

\* loadSchedule after getCachedScheduleForTarget returned cachedDays: the
\* days are shown if there are any and the request is still the current
\* one; then getCouples is issued.
ApplyCached(c, cachedDays) ==
  IF Len(cachedDays) > 0 /\ RequestIsCurrent(TargetKey(calls[c].target))
  THEN /\ calls' = [calls EXCEPT ![c].pc = "fetch", ![c].cacheApplied = TRUE,
                                 ![c].cache = EmptyStore, ![c].hydrated = <<>>]
       /\ scheduleDays' = cachedDays
       /\ selectedScheduleIndex' = 0
  ELSE /\ calls' = [calls EXCEPT ![c].pc = "fetch", ![c].cache = EmptyStore,
                                 ![c].hydrated = <<>>]
       /\ UNCHANGED <<scheduleDays, selectedScheduleIndex>>

\* getCachedScheduleForTarget once the cache is read, and, when nothing is
\* pruned, loadSchedule on to its getCouples.
HydrateRead(c) ==
  /\ calls[c].pc = "hydrate"
  /\ LET cache == calls[c].cache
         targetKey == TargetKey(calls[c].target)
     IN  IF ~HasKey(cache, targetKey)
         THEN ApplyCached(c, <<>>) /\ UNCHANGED scheduleItem
         ELSE LET storedDays == cache.fields[targetKey]
                  filtered == filterFutureScheduleDays(storedDays, now)
              IN  IF Len(filtered) # Len(storedDays)
                  THEN /\ \E writeOk \in BOOLEAN :
                            scheduleItem' = writeScheduleCache(
                               scheduleItem, storeOrRemove(cache, targetKey, filtered), writeOk)
                       /\ calls' = [calls EXCEPT ![c].pc = "hydrateWrite",
                                                 ![c].cache = EmptyStore,
                                                 ![c].hydrated = filtered]
                       /\ UNCHANGED <<scheduleDays, selectedScheduleIndex>>
                  ELSE ApplyCached(c, filtered) /\ UNCHANGED scheduleItem
  /\ UNCHANGED <<dirVars, homeVars, cacheVars, now, scheduleRequestKeyRef, scheduleError, scheduleLoading, started>>

\* The pruned cache is written: getCachedScheduleForTarget returns.
HydrateWritten(c) ==
  /\ calls[c].pc = "hydrateWrite"
  /\ ApplyCached(c, calls[c].hydrated)
  /\ UNCHANGED <<dirVars, homeVars, cacheVars, now, scheduleItem, scheduleRequestKeyRef, scheduleError,
                 scheduleLoading, started>>

\* getCouples resolved with a body: the days are normalized, sorted, shown
\* if the request is still the current one, and persistScheduleForTarget
\* issues its cache read.
FetchSucceeds(c, body) ==
  LET normalized == SortDays(NormalizeDays(body.items, calls[c].target.name))
  IN  /\ IF RequestIsCurrent(TargetKey(calls[c].target))
         THEN /\ scheduleDays' = normalized
              /\ selectedScheduleIndex' = 0
              /\ scheduleError' = IF Len(normalized) = 0 THEN ErrorNoSchedule ELSE NoScheduleError
         ELSE UNCHANGED <<scheduleDays, selectedScheduleIndex, scheduleError>>
      /\ \E readOk \in BOOLEAN :
           calls' = [calls EXCEPT ![c].pc = "persistRead", ![c].fetchOk = TRUE,
                                  ![c].normalized = normalized,
                                  ![c].cache = readScheduleCache(scheduleItem, readOk)]
      /\ UNCHANGED scheduleLoading

\* getCouples threw: the catch and the finally of loadSchedule.
FetchFails(c) ==
  /\ IF RequestIsCurrent(TargetKey(calls[c].target))
     THEN /\ scheduleError' = ErrorAfterFailure(calls[c].cacheApplied)
          /\ scheduleDays' = DaysAfterFailure(calls[c].cacheApplied, scheduleDays)
          /\ scheduleLoading' = FALSE
     ELSE UNCHANGED <<scheduleDays, scheduleError, scheduleLoading>>
  /\ calls' = [calls EXCEPT ![c].pc = "done", ![c].startDay = 0]
  /\ UNCHANGED selectedScheduleIndex

FetchResolves(c) ==
  /\ calls[c].pc = "fetch"
  /\ \E outcome \in CouplesOutcomes :
       LET response == backendCall(outcome)
       IN  IF response.ok THEN FetchSucceeds(c, response.value) ELSE FetchFails(c)
  /\ UNCHANGED <<dirVars, homeVars, cacheVars, now, scheduleItem, scheduleRequestKeyRef, started>>

\* persistScheduleForTarget once the cache is read: the days are filtered,
\* put under the key (or the key removed) and the cache write is issued.
PersistRead(c) ==
  /\ calls[c].pc = "persistRead"
  /\ LET targetKey == TargetKey(calls[c].target)
         filteredDays == filterFutureScheduleDays(calls[c].normalized, now)
     IN  \E writeOk \in BOOLEAN :
           scheduleItem' = writeScheduleCache(
              scheduleItem, storeOrRemove(calls[c].cache, targetKey, filteredDays), writeOk)
  /\ calls' = [calls EXCEPT ![c].pc = "persistWrite", ![c].cache = EmptyStore,
                            ![c].normalized = <<>>]
  /\ UNCHANGED <<dirVars, homeVars, cacheVars, now, scheduleRequestKeyRef, screenVars, started>>

\* The cache is written: the finally of loadSchedule.
PersistWritten(c) ==
  /\ calls[c].pc = "persistWrite"
  /\ calls' = [calls EXCEPT ![c].pc = "done", ![c].startDay = 0]
  /\ scheduleLoading' = IF RequestIsCurrent(TargetKey(calls[c].target))
                        THEN FALSE ELSE scheduleLoading
  /\ UNCHANGED <<dirVars, homeVars, cacheVars, now, scheduleItem, scheduleRequestKeyRef, scheduleDays,
                 selectedScheduleIndex, scheduleError, started>>

Max(a, b) == IF a >= b THEN a ELSE b
Min(a, b) == IF a <= b THEN a ELSE b

\* A press on the previous-day or next-day button that moves the index (a
\* press that computes the same index changes nothing).
handleChangeScheduleDay(direction) ==
  /\ selectedScheduleIndex' =
       IF direction = "prev" THEN Max(selectedScheduleIndex - 1, 0)
       ELSE Min(selectedScheduleIndex + 1, Max(Len(scheduleDays) - 1, 0))
  /\ selectedScheduleIndex' # selectedScheduleIndex
  /\ UNCHANGED <<dirVars, homeVars, cacheVars, now, scheduleItem, scheduleRequestKeyRef, scheduleDays,
                 scheduleError, scheduleLoading, calls, started>>

\* Midnight passes. The clock stops at the last day a date string names:
\* from then on every dated day stays where the filter puts it.
Tick ==
  /\ \E value \in DateStrings : getDateValue(value) > now
  /\ now' = now + 1
  /\ UNCHANGED <<dirVars, homeVars, cacheVars, scheduleItem, scheduleRequestKeyRef, screenVars, calls, started>>

SchedNext ==
  \/ \E target \in Targets : StartLoad(target)
  \/ \E c \in CallIds : HydrateRead(c)
  \/ \E c \in CallIds : HydrateWritten(c)
  \/ \E c \in CallIds : FetchResolves(c)
  \/ \E c \in CallIds : PersistRead(c)
  \/ \E c \in CallIds : PersistWritten(c)
  \/ \E direction \in {"prev", "next"} : handleChangeScheduleDay(direction)
  \/ Tick

SpecSched == SchedInit /\ [][SchedNext]_vars

\* ------------------------------------------------------ reading the caches
\* What the cache keys may hold when the app starts: nothing, text that is
\* not JSON, JSON of another shape, or what the app itself stored.
ForeignItems ==
  {AbsentItem, EmptyItem, GarbageItem, JsonItem(JsNull), JsonItem(JsNumber),
   JsonItem(JsString(<<"a", "b">>)),
   JsonItem(JsObject(TRUE, <<"x">>, "none", NoStr))}

DirectoryItems ==
  ForeignItems \cup {JsonItem(JsArray(list)) : list \in BackendLists}

StoredDays == {<<>>, <<ScheduleDay("day1", "A")>>, <<ScheduleDay("day2", "A")>>}

ScheduleItems ==
  ForeignItems
    \cup {JsonItem(JsArray(<<<<"a">>>>)), JsonItem(EmptyStore)}
    \cup {JsonItem(JsStore([k \in {<<"group", "A">>} |-> days])) : days \in StoredDays \ {<<>>}}

NotificationItems ==
  ForeignItems
    \cup {JsonItem(JsArray(<<<<"a">>>>))}
    \cup {JsonItem(JsNotifications(list)) :
            list \in {<<>>,
                      <<CachedNotification(1, ONE_WEEK_MS + 1)>>,
                      <<CachedNotification(1, 1)>>,
                      <<CachedNotification(1, 1), CachedNotification(2, ONE_WEEK_MS + 1)>>,
                      <<CachedNotification(1, 1), CachedNotification(2, 2)>>}}

\* One of the caches holds an item of its set, the others hold nothing; a
\* week and a day have passed since day 0.
CacheInit ==
  /\ directory \in Directories
  /\ dirStore \in DirectoryItems
  /\ scheduleItem \in ScheduleItems
  /\ notificationsItem \in NotificationItems
  /\ \/ dirStore = AbsentItem /\ scheduleItem = AbsentItem
     \/ dirStore = AbsentItem /\ notificationsItem = AbsentItem
     \/ scheduleItem = AbsentItem /\ notificationsItem = AbsentItem
  /\ dirLast = NoCall
  /\ dirPrev = NoFreshCall
  /\ now = ONE_WEEK_MS + 1
  /\ scheduleRequestKeyRef = NoKey
  /\ scheduleDays = <<>>
  /\ selectedScheduleIndex = 0
  /\ scheduleError = NoScheduleError
  /\ scheduleLoading = FALSE
  /\ calls = [c \in CallIds |-> IdleCall]
  /\ started = 0
  /\ cacheRead = NoRead
  /\ cacheWrite = NoWrite
  /\ HomeIdle

\* getCachedGroups / getCachedTeachers / getCachedCabinets, start to end.
GetCachedDirectory ==
  /\ \E readOk \in BOOLEAN :
       cacheRead' = [reader |-> "directory", readOk |-> readOk, item |-> dirStore,
                     result |-> getCachedDirectory(directory, dirStore, readOk)]
  /\ UNCHANGED <<dirVars, homeVars, schedVars, notificationsItem, cacheWrite>>

\* readScheduleCache, start to end.
ReadScheduleCache ==
  /\ \E readOk \in BOOLEAN :
       cacheRead' = [reader |-> "schedule", readOk |-> readOk, item |-> scheduleItem,
                     result |-> Returned(readScheduleCache(scheduleItem, readOk))]
  /\ UNCHANGED <<dirVars, homeVars, schedVars, notificationsItem, cacheWrite>>

\* readNotificationsCache, start to end.
ReadNotificationsCache ==
  /\ \E readOk \in BOOLEAN, writeOk \in BOOLEAN :
       LET read == readNotificationsCache(notificationsItem, readOk, writeOk, now)
       IN  /\ cacheRead' = [reader |-> "notifications", readOk |-> readOk,
                            item |-> notificationsItem,
                            result |-> Returned(JsNotifications(read.result))]
           /\ notificationsItem' = read.item
  /\ UNCHANGED <<dirVars, homeVars, schedVars, cacheWrite>>

\* The lists /notifications/{token} answers with.
FetchedNotifications ==
  {<<>>, <<Notification(1)>>, <<Notification(2), Notification(1)>>}

\* writeNotificationsCache(freshNotifications) of loadNotifications, start
\* to end.
WriteNotificationsCache ==
  /\ \E freshNotifications \in FetchedNotifications, writeOk \in BOOLEAN :
       /\ notificationsItem' =
            writeNotificationsCache(notificationsItem, freshNotifications, writeOk, now)
       /\ cacheWrite' = IF writeOk
                        THEN [made |-> TRUE, list |-> freshNotifications, at |-> now]
                        ELSE cacheWrite
  /\ UNCHANGED <<dirVars, homeVars, schedVars, cacheRead>>

\* A day passes.
DayPasses ==
  /\ now < ONE_WEEK_MS + 1 + MaxDaysPassed
  /\ now' = now + 1
  /\ UNCHANGED <<dirVars, homeVars, cacheVars, scheduleItem, scheduleRequestKeyRef, screenVars,
                 calls, started>>

CacheNext ==
  \/ GetCachedDirectory
  \/ ReadScheduleCache
  \/ ReadNotificationsCache
  \/ WriteNotificationsCache
  \/ DayPasses

SpecCache == CacheInit /\ [][CacheNext]_vars

\* The notifications cache from a first start on: nothing is stored under
\* any key, and all that changes the notifications item is the app's own
\* readNotificationsCache and writeNotificationsCache.
NotificationsInit ==
  /\ directory = "groups"
  /\ DirIdle
  /\ now = ONE_WEEK_MS + 1
  /\ scheduleItem = AbsentItem
  /\ scheduleRequestKeyRef = NoKey
  /\ scheduleDays = <<>>
  /\ selectedScheduleIndex = 0
  /\ scheduleError = NoScheduleError
  /\ scheduleLoading = FALSE
  /\ calls = [c \in CallIds |-> IdleCall]
  /\ started = 0
  /\ CacheIdle
  /\ HomeIdle

NotificationsNext ==
  \/ ReadNotificationsCache
  \/ WriteNotificationsCache
  \/ DayPasses

SpecNotifications == NotificationsInit /\ [][NotificationsNext]_vars

\* ------------------------------------------------- the cards of a day
\* A day of the backend's answer on its way to the screen: the map callback
\* of loadSchedule normalises its couples, and the memo of
\* currentScheduleList groups and sorts them into cards.
CardsInit ==
  /\ directory = "groups"
  /\ DirIdle
  /\ SchedIdle
  /\ CacheIdle
  /\ DaysIdle
  /\ TokenIdle
  /\ WebIdle
  /\ SubsIdle
  /\ PersistIdle
  /\ payloadCouples \in SeqsUpTo(RawCouples, MaxCouples)
  /\ currentCouples = <<>>
  /\ currentScheduleList = <<>>
  /\ listStep = "received"

\* couples: (payload.couples ?? []).map(...) in loadSchedule.
MapCouples ==
  /\ listStep = "received"
  /\ currentCouples' = NormalizeCouples(payloadCouples)
  /\ listStep' = "normalized"
  /\ UNCHANGED <<dirVars, schedVars, cacheVars, daysVars, tokenVars, webVars, subsVars, persistVars, payloadCouples, currentScheduleList>>

\* The useMemo of currentScheduleList.
ListCards ==
  /\ listStep = "normalized"
  /\ currentScheduleList' = ScheduleList(currentCouples)
  /\ listStep' = "listed"
  /\ UNCHANGED <<dirVars, schedVars, cacheVars, daysVars, tokenVars, webVars, subsVars, persistVars, payloadCouples, currentCouples>>

CardsNext ==
  \/ MapCouples
  \/ ListCards

SpecCards == CardsInit /\ [][CardsNext]_vars

\* ------------------------------------------------- the days of a response
\* getCachedScheduleForTarget at the time clock, start to end: the days it
\* returns and the item it leaves under the cache key.
getCachedScheduleForTarget(item, targetKey, readOk, writeOk, clock) ==
  LET cache == readScheduleCache(item, readOk)
  IN  IF ~HasKey(cache, targetKey) THEN [result |-> <<>>, item |-> item]
      ELSE LET storedDays == cache.fields[targetKey]
               filtered == filterFutureScheduleDays(storedDays, clock)
           IN  [result |-> filtered,
                item |-> IF Len(filtered) # Len(storedDays)
                         THEN writeScheduleCache(
                                item, storeOrRemove(cache, targetKey, filtered), writeOk)
                         ELSE item]

\* persistScheduleForTarget at the time clock, start to end: the item it
\* leaves under the cache key.
persistScheduleForTarget(item, targetKey, days, readOk, writeOk, clock) ==
  LET cache == readScheduleCache(item, readOk)
      filteredDays == filterFutureScheduleDays(days, clock)
  IN  writeScheduleCache(item, storeOrRemove(cache, targetKey, filteredDays), writeOk)

\* The target whose schedule is loaded.
DaysTarget == [type |-> "group", name |-> "A"]

\* Another target, loaded by an earlier run.
OtherTarget == [type |-> "group", name |-> "B"]

\* What the cache key holds when the screen is mounted: nothing, or the days
\* an earlier run stored for the other target.
DaysItems ==
  {AbsentItem,
   JsonItem(JsStore([k \in {TargetKey(OtherTarget)} |->
                       <<ScheduleDay("day1", "B"), ScheduleDay("day2", "B")>>]))}

\* One response of /couples/{name} with up to MaxDays date keys, from the
\* backend to the screen and the cache, with no other call under way; the
\* cache operations of the run come one after the other.
DaysInit ==
  /\ directory = "groups"
  /\ DirIdle
  /\ now = 1
  /\ scheduleItem \in DaysItems
  /\ scheduleRequestKeyRef = NoKey
  /\ scheduleDays = <<>>
  /\ selectedScheduleIndex = 0
  /\ scheduleError = NoScheduleError
  /\ scheduleLoading = FALSE
  /\ calls = [c \in CallIds |-> IdleCall]
  /\ started = 0
  /\ CacheIdle
  /\ CardsIdle
  /\ TokenIdle
  /\ WebIdle
  /\ SubsIdle
  /\ PersistIdle
  /\ responseKeys \in SeqsUpTo(DateStrings, MaxDays)
  /\ normalizedDays = <<>>
  /\ cachedRead = NoCachedRead
  /\ daysStep = "received"

\* normalized of loadSchedule: the days of the response, sorted.
NormalizeResponse ==
  /\ daysStep = "received"
  /\ normalizedDays' = SortDays(NormalizeDays(responseKeys, DaysTarget.name))
  /\ daysStep' = "normalized"
  /\ UNCHANGED <<dirVars, schedVars, cacheVars, cardVars, tokenVars, webVars, subsVars, persistVars, responseKeys, cachedRead>>

\* persistScheduleForTarget(targetKey, normalized), start to end.
PersistScheduleForTarget ==
  /\ daysStep = "normalized"
  /\ \E readOk \in BOOLEAN, writeOk \in BOOLEAN :
       scheduleItem' = persistScheduleForTarget(
                         scheduleItem, TargetKey(DaysTarget), normalizedDays, readOk, writeOk, now)
  /\ daysStep' = "persisted"
  /\ UNCHANGED <<dirVars, cacheVars, cardVars, tokenVars, webVars, subsVars, persistVars, now, scheduleRequestKeyRef, screenVars, calls,
                 started, responseKeys, normalizedDays, cachedRead>>

\* getCachedScheduleForTarget(targetKey) of a later loadSchedule, start to end.
GetCachedScheduleForTarget ==
  /\ daysStep \in {"persisted", "hydrated"}
  /\ \E readOk \in BOOLEAN, writeOk \in BOOLEAN :
       LET got == getCachedScheduleForTarget(
                    scheduleItem, TargetKey(DaysTarget), readOk, writeOk, now)
       IN  /\ cachedRead' = [readOk |-> readOk, days |-> got.result]
           /\ scheduleItem' = got.item
  /\ daysStep' = "hydrated"
  /\ UNCHANGED <<dirVars, cacheVars, cardVars, tokenVars, webVars, subsVars, persistVars, now, scheduleRequestKeyRef, screenVars, calls,
                 started, responseKeys, normalizedDays>>

\* Midnight passes, up to the day after the last day a date string names.
Midnight ==
  /\ daysStep \in {"persisted", "hydrated"}
  /\ \E value \in DateStrings : getDateValue(value) >= now
  /\ now' = now + 1
  /\ UNCHANGED <<dirVars, cacheVars, homeVars, scheduleItem, scheduleRequestKeyRef, screenVars,
                 calls, started>>

DaysNext ==
  \/ NormalizeResponse
  \/ PersistScheduleForTarget
  \/ GetCachedScheduleForTarget
  \/ Midnight

SpecDays == DaysInit /\ [][DaysNext]_vars

\* ------------------------------------------------- the device token cache
\* Calls of getDeviceToken and clearCachedDeviceToken, one after the other,
\* on a device whose token cache starts empty.
TokenInit ==
  /\ directory = "groups"
  /\ DirIdle
  /\ SchedIdle
  /\ CacheIdle
  /\ HomeIdle

\* getDeviceToken(forceRefresh), start to end.
GetDeviceToken ==
  /\ \E forceRefresh \in BOOLEAN, env \in TokenEnvs :
       LET got == getDeviceToken(tokenItem, forceRefresh, env)
       IN  /\ lastToken' = got.call
           /\ tokenItem' = got.item
  /\ UNCHANGED <<dirVars, schedVars, cacheVars, cardVars, daysVars, webVars, subsVars, persistVars>>

\* clearCachedDeviceToken, start to end; a rejected removeItem leaves the
\* item as it is.
ClearCachedDeviceToken ==
  /\ \E removeOk \in BOOLEAN :
       tokenItem' = IF removeOk THEN NoText ELSE tokenItem
  /\ lastToken' = [NoTokenCall EXCEPT !.kind = "clearCachedDeviceToken", !.before = tokenItem]
  /\ UNCHANGED <<dirVars, schedVars, cacheVars, cardVars, daysVars, webVars, subsVars, persistVars>>

TokenNext ==
  \/ GetDeviceToken
  \/ ClearCachedDeviceToken

SpecToken == TokenInit /\ [][TokenNext]_vars

\* ---------------------------------------------------- the web device token
\* getWebDeviceToken on a browser that has no token stored yet.  The callers
\* (loadActiveSubscriptions and loadNotifications at start-up, the
\* subscription handlers later) do not wait for each other, so the calls
\* interleave at their awaits.
WebInit ==
  /\ directory = "groups"
  /\ DirIdle
  /\ SchedIdle
  /\ CacheIdle
  /\ HomeIdle

\* getWebDeviceToken up to its first await: the getItem is issued.
StartWebToken(c) ==
  /\ webCalls[c].pc = "idle"
  /\ \E readOk \in BOOLEAN :
       webCalls' = [webCalls EXCEPT ![c] =
                      [IdleWebCall EXCEPT !.pc = "read", !.readOk = readOk,
                                          !.cached = IF readOk THEN webItem ELSE NoWebToken]]
  /\ UNCHANGED <<dirVars, schedVars, cacheVars, cardVars, daysVars, tokenVars, subsVars, persistVars, webItem, webClock>>

\* The getItem settled: the catch returns a token made on the spot, a stored
\* token is returned, or a fresh token is made and its setItem issued.
WebTokenRead(c) ==
  /\ webCalls[c].pc = "read"
  /\ IF ~webCalls[c].readOk
     THEN /\ webCalls' = [webCalls EXCEPT ![c].pc = "done", ![c].result = WebToken(webClock)]
          /\ UNCHANGED webItem
     ELSE IF ~webCalls[c].cached.null
     THEN /\ webCalls' = [webCalls EXCEPT ![c].pc = "done", ![c].result = webCalls[c].cached]
          /\ UNCHANGED webItem
     ELSE \E writeOk \in BOOLEAN :
            /\ webCalls' = [webCalls EXCEPT ![c].pc = "write", ![c].writeOk = writeOk,
                                            ![c].fresh = WebToken(webClock)]
            /\ webItem' = IF writeOk THEN WebToken(webClock) ELSE webItem
  /\ UNCHANGED <<dirVars, schedVars, cacheVars, cardVars, daysVars, tokenVars, subsVars, persistVars, webClock>>

\* The setItem settled: the fresh token is returned, or the catch returns a
\* token made on the spot.
WebTokenWritten(c) ==
  /\ webCalls[c].pc = "write"
  /\ webCalls' = [webCalls EXCEPT ![c].pc = "done",
                                  ![c].result = IF webCalls[c].writeOk THEN webCalls[c].fresh
                                                ELSE WebToken(webClock)]
  /\ UNCHANGED <<dirVars, schedVars, cacheVars, cardVars, daysVars, tokenVars, subsVars, persistVars, webItem, webClock>>

\* A millisecond passes.
Millisecond ==
  /\ webClock < MaxMillis
  /\ webClock' = webClock + 1
  /\ UNCHANGED <<dirVars, schedVars, cacheVars, cardVars, daysVars, tokenVars, subsVars, persistVars, webItem, webCalls>>

WebNext ==
  \/ \E c \in WebCallIds : StartWebToken(c)
  \/ \E c \in WebCallIds : WebTokenRead(c)
  \/ \E c \in WebCallIds : WebTokenWritten(c)
  \/ Millisecond

SpecWeb == WebInit /\ [][WebNext]_vars

\* --------------------------------------------------- the subscription list
\* getWebDeviceToken with no other call under way, start to end: the token
\* it returns and the item it leaves under WEB_DEVICE_TOKEN_KEY.
getWebDeviceToken(item, readOk, writeOk, clock) ==
  IF ~readOk THEN [result |-> WebToken(clock), item |-> item]
  ELSE IF ~item.null THEN [result |-> item, item |-> item]
  ELSE IF writeOk THEN [result |-> WebToken(clock), item |-> WebToken(clock)]
  ELSE [result |-> WebToken(clock), item |-> item]

\* The screen is mounted, with or without a device token cached by an
\* earlier run (on the web nothing writes that key): loadActiveSubscriptions is under way, the list is empty; the
\* user adds and removes subscriptions while requests are in flight.
SubsInit ==
  /\ directory = "groups"
  /\ DirIdle
  /\ SchedIdle
  /\ CacheIdle
  /\ CardsIdle
  /\ DaysIdle
  /\ tokenItem \in {NoText, Text(<<"a">>)}
  /\ lastToken = NoTokenCall
  /\ WebIdle
  /\ PersistIdle
  /\ platform \in {"android", "web"}
  /\ platform = "web" => tokenItem = NoText
  /\ activeSubscriptions \in ActiveSubscriptions
  /\ subscriptions = <<>>
  /\ subscriptionCooldown = 0
  /\ subscriptionsLoad = "pending"
  /\ subsOps = [c \in SubsOpIds |-> IdleOp]

\* The handler calls are numbered in the order they are made.
NextOp(c) == subsOps[c].pc = "idle" /\ \A d \in 1..(c - 1) : subsOps[d].pc # "idle"

\* loadActiveSubscriptions from its first await to its end: the cached
\* token, on the web else the token of getWebDeviceToken; without a token it
\* returns; getSubscribers fails, answers with nothing, or answers with the
\* list that replaces the subscriptions.
LoadActiveSubscriptions ==
  /\ subscriptionsLoad = "pending"
  /\ activeSubscriptions' = <<>>
  /\ \E cachedOk \in BOOLEAN :
       LET cached == ~tokenItem.null /\ tokenItem.s # <<>>
       IN  IF ~cachedOk
           THEN subscriptionsLoad' = "not loaded" /\ UNCHANGED <<subscriptions, webItem>>
           ELSE IF ~cached /\ platform # "web"
           THEN subscriptionsLoad' = "not loaded" /\ UNCHANGED <<subscriptions, webItem>>
           ELSE /\ IF cached THEN UNCHANGED webItem
                   ELSE \E readOk \in BOOLEAN, writeOk \in BOOLEAN :
                          webItem' = getWebDeviceToken(webItem, readOk, writeOk, webClock).item
                /\ \/ /\ subscriptionsLoad' = "not loaded"
                      /\ UNCHANGED subscriptions
                   \/ /\ subscriptions' =
                           [i \in 1..Len(activeSubscriptions) |->
                              RemoteSubscription(activeSubscriptions[i])]
                      /\ subscriptionsLoad' = "loaded"
  /\ UNCHANGED <<dirVars, schedVars, cacheVars, persistVars, cardVars, daysVars, tokenVars,
                 webCalls, webClock, platform, subscriptionCooldown, subsOps>>

\* handleAddSubscription(type, title) up to its first await.  React runs
\* the updater of setSubscriptions at once when the component has no update
\* pending and at the next render otherwise; in the second case the handler
\* still reads added as false and returns.  A call made during the cooldown
\* returns at once.
handleAddSubscription(c, title) ==
  /\ NextOp(c)
  /\ IF InCooldown(subscriptionCooldown)
     THEN /\ subsOps' = [subsOps EXCEPT ![c] =
                           [IdleOp EXCEPT !.kind = "add", !.pc = "done",
                                          !.request = "cooldown"]]
          /\ UNCHANGED <<subscriptions, subscriptionCooldown>>
     ELSE /\ subscriptions' = AddedTo(subscriptions, "group", title)
          /\ \E eager \in BOOLEAN :
               LET added == eager /\ subscriptions' # subscriptions
               IN  /\ subsOps' = [subsOps EXCEPT ![c] =
                                    [IdleOp EXCEPT !.kind = "add",
                                                   !.pc = IF added THEN "token" ELSE "done",
                                                   !.changed = subscriptions' # subscriptions,
                                                   !.entry = LocalSubscription("group", title)]]
                   /\ subscriptionCooldown' = IF added THEN 5 ELSE subscriptionCooldown
  /\ UNCHANGED <<dirVars, schedVars, cacheVars, persistVars, cardVars, daysVars, tokenVars, webVars,
                 platform, activeSubscriptions, subscriptionsLoad>>

\* handleRemoveSubscription(subscription), for an entry of the list, up to
\* its first await.
handleRemoveSubscription(c, i) ==
  /\ NextOp(c)
  /\ i \in 1..Len(subscriptions)
  /\ subscriptions' = RemovedFrom(subscriptions, subscriptions[i])
  /\ subsOps' = [subsOps EXCEPT ![c] =
                   [IdleOp EXCEPT !.kind = "remove", !.pc = "token", !.changed = TRUE,
                                  !.entry = subscriptions[i]]]
  /\ UNCHANGED <<dirVars, schedVars, cacheVars, persistVars, cardVars, daysVars, tokenVars, webVars,
                 platform, activeSubscriptions, subscriptionCooldown, subscriptionsLoad>>

\* The handler has no token to send: it alerts or logs and returns.
EndsUnsent(c, why) ==
  /\ subsOps' = [subsOps EXCEPT ![c].pc = "done", ![c].request = why]
  /\ subscriptions' = afterFailure(subscriptions, subsOps[c])

\* The token of a handler, from getCachedDeviceToken to the token or the
\* return without one: the cached token; on the web the token of
\* getWebDeviceToken; elsewhere the token of getDeviceToken.
HandlerToken(c) ==
  /\ subsOps[c].pc = "token"
  /\ \E cachedOk \in BOOLEAN :
       IF ~cachedOk
       THEN EndsUnsent(c, "token read failed") /\ UNCHANGED <<tokenVars, webVars>>
       ELSE IF ~tokenItem.null /\ tokenItem.s # <<>>
       THEN /\ subsOps' = [subsOps EXCEPT ![c].pc = "request"]
            /\ UNCHANGED <<subscriptions, tokenVars, webVars>>
       ELSE IF platform = "web"
       THEN \E readOk \in BOOLEAN, writeOk \in BOOLEAN :
              /\ webItem' = getWebDeviceToken(webItem, readOk, writeOk, webClock).item
              /\ subsOps' = [subsOps EXCEPT ![c].pc = "request"]
              /\ UNCHANGED <<subscriptions, tokenVars, webCalls, webClock>>
       ELSE \E env \in HandlerTokenEnvs :
              LET got == getDeviceToken(tokenItem, FALSE, env)
              IN  /\ tokenItem' = got.item
                  /\ lastToken' = got.call
                  /\ UNCHANGED webVars
                  /\ IF ~got.call.returned THEN EndsUnsent(c, "no token")
                     ELSE IF got.call.value = <<>> THEN EndsUnsent(c, "empty token")
                     ELSE /\ subsOps' = [subsOps EXCEPT ![c].pc = "request"]
                          /\ UNCHANGED subscriptions
  /\ UNCHANGED <<dirVars, schedVars, cacheVars, persistVars, cardVars, daysVars, platform, activeSubscriptions,
                 subscriptionCooldown, subscriptionsLoad>>

\* subscribe or deleteSubscription settled: a response without success is
\* logged, an error is caught.
HandlerRequest(c) ==
  /\ subsOps[c].pc = "request"
  /\ \E outcome \in RequestOutcomes :
       /\ subsOps' = [subsOps EXCEPT ![c].pc = "done", ![c].request = outcome]
       /\ subscriptions' = IF outcome = "success" THEN subscriptions
                           ELSE afterFailure(subscriptions, subsOps[c])
  /\ UNCHANGED <<dirVars, schedVars, cacheVars, persistVars, cardVars, daysVars, tokenVars, webVars,
                 platform, activeSubscriptions, subscriptionCooldown, subscriptionsLoad>>

\* A second of the cooldown passes.
CooldownSecond ==
  /\ subscriptionCooldown > 0
  /\ subscriptionCooldown' = Max(subscriptionCooldown - 1, 0)
  /\ UNCHANGED <<dirVars, schedVars, cacheVars, persistVars, cardVars, daysVars, tokenVars, webVars,
                 platform, activeSubscriptions, subscriptions, subscriptionsLoad, subsOps>>

SubsNext ==
  \/ LoadActiveSubscriptions
  \/ \E c \in SubsOpIds, title \in SubscriptionTitles : handleAddSubscription(c, title)
  \/ \E c \in SubsOpIds, i \in RemovedPlaces : handleRemoveSubscription(c, i)
  \/ \E c \in SubsOpIds : HandlerToken(c)
  \/ \E c \in SubsOpIds : HandlerRequest(c)
  \/ CooldownSecond

SpecSubs == SubsInit /\ [][SubsNext]_vars

\* The screen is mounted on the web by a device that holds nine or ten
\* subscriptions.
SubsLimitInit ==
  /\ directory = "groups"
  /\ DirIdle
  /\ SchedIdle
  /\ CacheIdle
  /\ CardsIdle
  /\ DaysIdle
  /\ TokenIdle
  /\ WebIdle
  /\ PersistIdle
  /\ platform = "web"
  /\ activeSubscriptions \in ManyActiveSubscriptions
  /\ subscriptions = <<>>
  /\ subscriptionCooldown = 0
  /\ subscriptionsLoad = "pending"
  /\ subsOps = [c \in SubsOpIds |-> IdleOp]

SpecSubsLimit == SubsLimitInit /\ [][SubsNext]_vars

\* ------------------------------------------- overlapping schedule persists
\* The lines of loadSchedule from the resolved getCouples on, for one call
\* per target, the calls overlapping or not: the store is empty when the
\* first response arrives.
PersistInit ==
  /\ directory = "groups"
  /\ DirIdle
  /\ SchedIdle
  /\ CacheIdle
  /\ CardsIdle
  /\ DaysIdle
  /\ TokenIdle
  /\ WebIdle
  /\ SubsIdle
  /\ PersistIdle

OtherOf(t) == CHOOSE u \in Targets : u # t

\* getCouples of loadSchedule(t) resolved with a body: the days are
\* normalized and sorted, and persistScheduleForTarget issues its cache read.
PersistStarts(t, body) ==
  /\ persists[t].pc = "idle"
  /\ \E readOk \in BOOLEAN :
       persists' =
         [u \in Targets |->
            IF u = t
            THEN [IdlePersist EXCEPT
                    !.pc = "read", !.readOk = readOk,
                    !.days = SortDays(NormalizeDays(body, t.name)),
                    !.cache = readScheduleCache(scheduleItem, readOk),
                    !.overlapped = persists[OtherOf(t)].pc = "read"]
            ELSE [persists[u] EXCEPT !.overlapped = @ \/ persists[u].pc = "read"]]
  /\ UNCHANGED <<dirVars, schedVars, cacheVars, cardVars, daysVars, tokenVars, webVars,
                 subsVars, lastWriter>>

\* persistScheduleForTarget once the cache is read: the days are filtered,
\* put under the key (or the key removed) and the cache is written.
PersistStores(t) ==
  /\ persists[t].pc = "read"
  /\ LET filteredDays == filterFutureScheduleDays(persists[t].days, now)
     IN  \E writeOk \in BOOLEAN :
           /\ scheduleItem' = writeScheduleCache(
                scheduleItem, storeOrRemove(persists[t].cache, TargetKey(t), filteredDays),
                writeOk)
           /\ persists' = [persists EXCEPT ![t].pc = "done", ![t].writeOk = writeOk,
                                           ![t].cache = EmptyStore, ![t].days = <<>>,
                                           ![t].kept = filteredDays]
           /\ lastWriter' = IF writeOk THEN t ELSE lastWriter
  /\ UNCHANGED <<dirVars, cacheVars, cardVars, daysVars, tokenVars, webVars, subsVars,
                 now, scheduleRequestKeyRef, screenVars, calls, started>>

\* Midnight passes while the responses are awaited.
PersistMidnight ==
  /\ \E t \in Targets : persists[t].pc # "done"
  /\ \E value \in DateStrings : getDateValue(value) > now
  /\ now' = now + 1
  /\ UNCHANGED <<dirVars, cacheVars, homeVars, scheduleItem, scheduleRequestKeyRef, screenVars,
                 calls, started>>

PersistNext ==
  \/ \E t \in Targets, body \in CouplesBodies : PersistStarts(t, body)
  \/ \E t \in Targets : PersistStores(t)
  \/ PersistMidnight

SpecPersist == PersistInit /\ [][PersistNext]_vars

\* ------------------------------------------------ claims on the directories
\* The request of the call did not end in a response with a 2xx status.
FetchFailed(call) ==
  call.made /\ (call.outcome.kind = "rejected"
                \/ call.outcome.status < 200 \/ call.outcome.status >= 300)

\* The request ended in a 2xx response whose body is a list (or a string,
\* which [...body] spreads into its characters).
FetchedList(call) ==
  call.made /\ call.outcome.kind = "response"
  /\ call.outcome.status >= 200 /\ call.outcome.status < 300
  /\ call.outcome.data.t \in {"array", "string"}

\* The call went through its try block: fetched, sorted, cached, returned.
FreshCall(call) == FetchedList(call) /\ call.writeOk

HoldsList(item) == item.present /\ item.json = "valid" /\ item.val.t = "array"

Count(s, x) == Cardinality({i \in 1..Len(s) : s[i] = x})

SameElements(s, t) ==
  /\ Len(s) = Len(t)
  /\ \A i \in 1..Len(s) : Count(s, s[i]) = Count(t, s[i])

\* C1: when the fetch of a directory getter fails and the cache key holds a
\* parsable list that the getter can read, the getter returns that list and
\* does not throw; when the fetch fails and the key holds nothing, the
\* getter throws the error the fetch threw.
C1_FallbackToCachedList ==
  (FetchFailed(dirLast) /\ dirLast.readOk) =>
     IF HoldsList(dirLast.before)
     THEN dirLast.result.ok /\ dirLast.result.value = dirLast.before.val
     ELSE /\ ~dirLast.before.present
          /\ ~dirLast.result.ok
          /\ dirLast.result.error.origin \in {"ensureSuccess", "normalizeAxiosError", "thrown"}
          /\ dirLast.result.error = dirLast.fetched.error

C1_Witness ==
  /\ FetchFailed(dirLast) /\ dirLast.readOk
  /\ HoldsList(dirLast.before) /\ Len(dirLast.before.val.items) = 2
  /\ dirLast.result.ok

\* C2: an error of a backend-access function is a BackendError of status 0
\* exactly when no HTTP response was received; for a response with a status
\* outside [200,300) it is the BackendError that ensureSuccess constructed,
\* with that status and the response body as payload; a rejection that is
\* no transport error is thrown on as the same object.
C2_ErrorClassification ==
  dirLast.made =>
    LET o == dirLast.outcome
        e == dirLast.fetched.error
    IN  /\ dirLast.fetched.ok <=> (o.kind = "response" /\ o.status >= 200 /\ o.status < 300)
        /\ (o.kind = "response" /\ ~dirLast.fetched.ok) =>
              /\ e.name = "BackendError" /\ e.origin = "ensureSuccess"
              /\ e.status = o.status /\ e.status # 0 /\ e.payload = o.data
        /\ (o.kind = "rejected" /\ o.error.name = "AxiosError") =>
              /\ e.name = "BackendError"
              /\ (e.status = 0 <=> ~o.error.hasResponse)
              /\ (o.error.hasResponse => e.status = o.error.respStatus /\ e.payload = o.error.respData)
        /\ (o.kind = "rejected" /\ o.error.name # "AxiosError") => e = o.error

C2_Witness ==
  /\ dirLast.made /\ dirLast.outcome.kind = "response" /\ dirLast.outcome.status = 404
  /\ ~dirLast.result.ok /\ dirLast.result.error.status = 404

\* C7: a failure of the key-value store is never propagated by a directory
\* getter, and when the fetch succeeded the getter returns the freshly
\* fetched list, sorted, even if writing the cache fails.
C7_StorageFailureNotPropagated ==
  dirLast.made =>
    /\ dirLast.result.error.origin # "AsyncStorage"
    /\ FetchedList(dirLast) =>
          /\ dirLast.result.ok
          /\ IsSortedIn(directory, dirLast.result.value.items)
          /\ SameElements(dirLast.result.value.items, SpreadItems(dirLast.outcome.data))

\* C9: after a getter call that fetched, sorted and cached a list, the
\* cached list is exactly the list the call returned, and it holds the
\* entries the backend sent and no others.
C9_CacheOverwritten ==
  FreshCall(dirLast) =>
    /\ dirLast.result.ok
    /\ HoldsList(dirStore)
    /\ dirStore.val.items = dirLast.result.value.items
    /\ SameElements(dirStore.val.items, SpreadItems(dirLast.outcome.data))

C9_Witness ==
  /\ FreshCall(dirLast)
  /\ HoldsList(dirLast.before)
  /\ \E i \in 1..Len(dirLast.before.val.items) :
        Count(dirStore.val.items, dirLast.before.val.items[i]) = 0
  /\ dirStore.val.items # <<>>

\* C10: two getter calls in a row that both fetch the same list and cache it
\* return the same sorted list, and the cache after the second call equals
\* the cache after the first, with as many entries as the backend sent.
C10_Idempotent ==
  (dirPrev.fresh /\ FreshCall(dirLast) /\ SpreadItems(dirLast.outcome.data) = dirPrev.list) =>
    /\ dirLast.result.ok
    /\ dirLast.result.value.items = dirPrev.value
    /\ IsSortedIn(directory, dirLast.result.value.items)
    /\ dirStore = dirLast.before
    /\ Len(dirStore.val.items) = Len(dirPrev.list)

C10_Witness ==
  /\ dirPrev.fresh /\ FreshCall(dirLast)
  /\ SpreadItems(dirLast.outcome.data) = dirPrev.list
  /\ Len(dirPrev.list) = 2
  /\ dirPrev.list # dirPrev.value

\* --------------------------------------------------- claims on loadSchedule
\* The call made a step: it went on after one of its awaits.
WentOn(c) == calls[c].pc # "idle" /\ calls'[c] # calls[c]

\* The call is not the current request.
Superseded(c) == scheduleRequestKeyRef # TargetKey(calls[c].target)

\* No other started call is for the key of call c.
OnlyCallForKey(c) ==
  \A d \in 1..started : d # c => TargetKey(calls[d].target) # TargetKey(calls[c].target)

AllCallsDone == \A c \in 1..started : calls[c].pc = "done"

\* The store the schedule cache item holds.
PersistedStore == readScheduleCache(scheduleItem, TRUE)

\* The day has a parsed date, and it is before the local midnight of clock.
IsPastDay(day, clock) ==
  getDateValue(day.date) # 0 /\ getDateValue(day.date) < getTodayStart(clock)

HasPastDay(days, clock) == \E i \in 1..Len(days) : IsPastDay(days[i], clock)

\* C3: once a loadSchedule for another target key is the current request,
\* no step of the earlier call (its late response or failure included)
\* changes scheduleDays, selectedScheduleIndex, scheduleError or
\* scheduleLoading; and when all calls are finished and the call started
\* last is the only one for its key, every day shown is one sent for the
\* target of that call.
C3_LateResponseIgnored ==
  /\ [](AllCallsDone /\ started > 0 /\ OnlyCallForKey(started)
          => \A i \in 1..Len(scheduleDays) :
               scheduleDays[i].owner = calls[started].target.name)
  /\ [][\A c \in CallIds : WentOn(c) /\ Superseded(c) => UNCHANGED screenVars]_vars

\* C3 witness: the first call got its days after the second call, for
\* another key, was started; the screen still shows no day, no error, and
\* loading.
C3_Witness ==
  /\ started = 2
  /\ calls[1].target # calls[2].target
  /\ calls[1].pc = "persistRead" /\ calls[1].fetchOk /\ calls[1].normalized # <<>>
  /\ calls[2].pc = "hydrate"
  /\ scheduleDays = <<>>
  /\ scheduleError = NoScheduleError
  /\ scheduleLoading

\* The call issues the cache write of persistScheduleForTarget.
PersistWrites(c) == calls[c].pc = "persistRead" /\ calls'[c].pc = "persistWrite"

\* The call ends after its fetch succeeded.
EndsLoaded(c) == calls[c].pc = "persistWrite" /\ calls'[c].pc = "done"

C5_NoEmptyEntry ==
  \A k \in DOMAIN PersistedStore.fields : PersistedStore.fields[k] # <<>>

\* C5 witness: getCachedScheduleForTarget found days under the key, the
\* filter left none of them, and the store it wrote has no such key.
C5_Witness ==
  \E c \in CallIds :
    /\ calls[c].pc = "hydrateWrite" /\ calls[c].hydrated = <<>>
    /\ scheduleItem.present
    /\ ~HasKey(PersistedStore, TargetKey(calls[c].target))

\* The fetch of the call fails while the call is the current request.
FailsCurrent(c) ==
  calls[c].pc = "fetch" /\ calls'[c].pc = "done" /\ ~Superseded(c)

IsUndated(day) == DateTime(day.date).nan

UndatedDays(days) == SelectSeq(days, IsUndated)

\* No day with a parsed date stands before a day without one.
UndatedFirst(days) ==
  \A i \in 1..Len(days), j \in 1..Len(days) :
    IsUndated(days[j]) /\ ~IsUndated(days[i]) => j < i

\* No day whose date is after the epoch stands before a day without a
\* parsed date.
UndatedBeforeLaterDays(days) ==
  \A i \in 1..Len(days), j \in 1..Len(days) :
    IsUndated(days[j]) /\ ~IsUndated(days[i]) /\ DateTime(days[i].date).time > 0 => j < i

\* The days a store holds under the key of the target.
EntryOf(store) ==
  IF HasKey(store, TargetKey(DaysTarget)) THEN store.fields[TargetKey(DaysTarget)] ELSE <<>>

\* The response is normalised.
Normalizes == daysStep = "received" /\ daysStep' = "normalized"

\* A day without a parsed date has the date value 0; the cache write of
\* persistScheduleForTarget stores it; and a getCachedScheduleForTarget,
\* whenever it runs, returns it and leaves it in the stored entry.
UndatedDayKept ==
  /\ Normalizes
       => \A i \in 1..Len(normalizedDays') :
            IsUndated(normalizedDays'[i]) => getDateValue(normalizedDays'[i].date) = 0
  /\ daysStep = "normalized" /\ daysStep' = "persisted" /\ scheduleItem' # scheduleItem
       => UndatedDays(EntryOf(readScheduleCache(scheduleItem', TRUE)))
            = UndatedDays(normalizedDays)
  /\ daysStep' = "hydrated" /\ now' = now
       => LET storedDays == EntryOf(readScheduleCache(scheduleItem, TRUE))
          IN  /\ UndatedDays(EntryOf(readScheduleCache(scheduleItem', TRUE)))
                   = UndatedDays(storedDays)
              /\ cachedRead'.readOk
                   => UndatedDays(cachedRead'.days) = UndatedDays(storedDays)

\* C16 (amended): a day whose date string cannot be parsed has the date
\* value 0; in the normalised days of a response it stands before every day
\* whose date is after the epoch; the cache write of
\* persistScheduleForTarget stores it; and a getCachedScheduleForTarget,
\* whenever it runs, returns it and leaves it in the stored entry.
C16_UndatedDayFirstAndKept ==
  [][UndatedDayKept /\ (Normalizes => UndatedBeforeLaterDays(normalizedDays'))]_vars

\* C16 as stated: the same, and in the normalised days the day without a
\* parsed date stands before every day with a parsed date.
C16_UndatedBeforeEveryDatedDay ==
  [][UndatedDayKept /\ (Normalizes => UndatedFirst(normalizedDays'))]_vars

\* C16 witness: the backend sent day 1 and, after it, a day without a
\* parsed date; the days were stored, and on a later day
\* getCachedScheduleForTarget pruned day 1, returned the day without a date
\* alone and left it alone in the store.
C16_Witness ==
  /\ daysStep = "hydrated"
  /\ now > 1
  /\ responseKeys = <<"day1", "not-a-date">>
  /\ normalizedDays = <<ScheduleDay("not-a-date", DaysTarget.name),
                        ScheduleDay("day1", DaysTarget.name)>>
  /\ cachedRead = [readOk |-> TRUE, days |-> <<ScheduleDay("not-a-date", DaysTarget.name)>>]
  /\ EntryOf(readScheduleCache(scheduleItem, TRUE)) = cachedRead.days

\* ------------------------------------------------ claims on reading a cache
\* JSON.parse of the item gives a value of the structure the reader is for:
\* a list of names, a store of days by target key, a list of cached
\* notifications.
ParsesAsExpected(reader, item) ==
  /\ JsonParses(item)
  /\ CASE reader = "directory" -> item.val.t = "array" /\ item.val.fields = <<>>
       [] reader = "schedule" ->
            item.val.t = "object" /\ ~item.val.hasMsg /\ item.val.errs = "none"
       [] reader = "notifications" -> item.val.t = "array" /\ item.val.items = <<>>
       [] OTHER -> FALSE

\* What the reader gives for an empty cache.
CacheMiss(reader) ==
  CASE reader = "directory" -> Returned(JsNull)
    [] reader = "schedule" -> Returned(EmptyStore)
    [] OTHER -> Returned(JsNotifications(<<>>))

\* C8: when the stored value a reader got from storage does not parse as
\* the structure the reader is for, the reader gives what it gives for an
\* empty cache (null, an empty store, an empty list) and does not throw.
C8_CorruptCacheIsMiss ==
  cacheRead.reader # "none" /\ cacheRead.readOk /\ cacheRead.item.present
    /\ ~ParsesAsExpected(cacheRead.reader, cacheRead.item)
    => cacheRead.result = CacheMiss(cacheRead.reader)

\* ------------------------------------------------- claims on the sort order
\* The first position at which both names have an embedded integer and the
\* two integers differ, or 0 when there is none.
RECURSIVE FirstDifference(_, _, _)
FirstDifference(an, bn, i) ==
  IF i > Len(an) \/ i > Len(bn) THEN 0
  ELSE IF an[i] # bn[i] THEN i
  ELSE FirstDifference(an, bn, i + 1)

\* The letter parts of the two names are equal for the comparator, and the
\* first differing embedded integer is smaller in the first name.
SmallerIntegerFirst(a, b) ==
  LET aParts == extractGroupParts(a)
      bParts == extractGroupParts(b)
      k == FirstDifference(aParts.numbers, bParts.numbers, 1)
  IN  localeCompare(aParts.letters, bParts.letters, FALSE) = 0 /\ k # 0
        => aParts.numbers[k] < bParts.numbers[k]

\* C11: every list getGroups returns, freshly fetched or from the cache, is
\* ordered by compareGroupNames, and of two names in it with equal letter
\* parts the one whose first differing embedded integer is smaller comes
\* first.
C11_GroupsInNumericOrder ==
  (dirLast.made /\ directory = "groups" /\ dirLast.result.ok) =>
    LET list == dirLast.result.value.items
    IN  /\ dirLast.result.value.t = "array"
        /\ \A i \in 1..Len(list) : \A j \in 1..Len(list) :
             i < j => /\ compareGroupNames(list[i], list[j]) <= 0
                      /\ SmallerIntegerFirst(list[i], list[j])

\* C11 witness: the fetch failed and getGroups returned the cached list,
\* "b-2" before "B-10", that an earlier call had fetched as "B-10", "b-2".
C11_Witness ==
  /\ directory = "groups"
  /\ FetchFailed(dirLast) /\ dirLast.result.ok
  /\ dirPrev.fresh /\ dirPrev.list = <<<<"B", "-", "1", "0">>, <<"b", "-", "2">>>>
  /\ dirLast.result.value.items = <<<<"b", "-", "2">>, <<"B", "-", "1", "0">>>>

\* ------------------------------------------------ claims on ensureSuccess
\* The message the claim names for a body, by its order of preference;
\* bodyCounts says which string bodies count as a message.
PreferredMessage(body, status, bodyCounts) ==
  IF body.t = "string" /\ bodyCounts THEN body.items
  ELSE IF body.t = "object" /\ body.hasMsg THEN body.msg
  ELSE IF body.t = "object" /\ body.errs = "strings" THEN body.errs0
  ELSE <<"Backend responded with status ">> \o DecimalChars(status)

\* What a backend call came to for a response, given the message the error
\* is to carry.
AnsweredWith(call, message) ==
  IF call.outcome.status >= 200 /\ call.outcome.status < 300
  THEN call.fetched.ok /\ call.fetched.value = call.outcome.data
  ELSE /\ ~call.fetched.ok
       /\ call.fetched.error.name = "BackendError"
       /\ call.fetched.error.origin = "ensureSuccess"
       /\ call.fetched.error.message = message

\* C12 (amended): for a response with a status in [200,300) the body is
\* returned; for any other status a BackendError is thrown whose message is
\* the body if it is a non-empty string, else the string `message` field of
\* the body, else the first element of its `errors` array if that is a
\* string, else "Backend responded with status {status}".
C12_MessageOfNonEmptyBody ==
  (dirLast.made /\ dirLast.outcome.kind = "response") =>
    AnsweredWith(dirLast,
       PreferredMessage(dirLast.outcome.data, dirLast.outcome.status,
                        dirLast.outcome.data.items # <<>>))

\* C12 witness: a 422 whose body has both a `message` and an `errors` array
\* was answered with a BackendError carrying the `message`.
C12_Witness ==
  /\ dirLast.made /\ dirLast.outcome.kind = "response" /\ dirLast.outcome.status = 422
  /\ dirLast.outcome.data.hasMsg /\ dirLast.outcome.data.errs = "strings"
  /\ ~dirLast.fetched.ok
  /\ dirLast.fetched.error.message = dirLast.outcome.data.msg

\* C12 as stated: the message is the body whenever the body is a string.
C12_MessageOfAnyStringBody ==
  (dirLast.made /\ dirLast.outcome.kind = "response") =>
    AnsweredWith(dirLast,
       PreferredMessage(dirLast.outcome.data, dirLast.outcome.status, TRUE))

\* ------------------------------------------ claims on the notifications cache
\* The step is a readNotificationsCache, start to end.
NotificationsRead ==
  /\ now' = now /\ cacheWrite' = cacheWrite
  /\ cacheRead'.reader = "notifications" /\ cacheRead'.item = notificationsItem
  /\ (cacheRead' # cacheRead \/ notificationsItem' # notificationsItem)

\* The entries whose age at the time clock is below 7 days, as they are.
Survivors(cached, clock) ==
  SelectSeq(cached, LAMBDA entry : clock - entry.cachedAt < ONE_WEEK_MS)

\* The notifications of the entries, without cachedAt.
NotificationsOf(cached) == [i \in 1..Len(cached) |-> [id |-> cached[i].id]]

C14_WriteReadRoundTrip ==
  [][NotificationsRead /\ cacheRead'.readOk /\ cacheWrite.made
       /\ now - cacheWrite.at < ONE_WEEK_MS
     => cacheRead'.result = Returned(JsNotifications(cacheWrite.list))]_vars

\* C14 witness: the list 2, 1 was written and read back six days later.
C14_Witness ==
  /\ cacheWrite.made /\ cacheWrite.list = <<Notification(2), Notification(1)>>
  /\ now = cacheWrite.at + ONE_WEEK_MS - 1
  /\ cacheRead.reader = "notifications" /\ cacheRead.readOk
  /\ cacheRead.item = notificationsItem
  /\ JsonParses(notificationsItem)
  /\ notificationsItem.val.fields =
       <<CachedNotification(2, cacheWrite.at), CachedNotification(1, cacheWrite.at)>>
  /\ cacheRead.result = Returned(JsNotifications(cacheWrite.list))
\* ------------------------------------------------------ claims on the cards
\* The couple the backend sent has the cabinet of the class hour.
IsClassHourCouple(couple) == ~couple.cabinet.null /\ couple.cabinet.s = ClassHourMark

\* The position in the display list of the card that shows the couple with
\* this id: the card that has it among its grouped lessons.
CardOf(id) ==
  CHOOSE p \in 1..Len(currentScheduleList) :
    \E k \in 1..Len(currentScheduleList[p].groupedLessons) :
      currentScheduleList[p].groupedLessons[k] = id

\* The card is an ordinary lesson, placed by its sequence number.
HasSequenceNumber(card) == card.number.isNumber /\ getSortOrder(card) # 7

\* C15: a couple whose cabinet is the class-hour mark gets the class hour's
\* title whatever its lesson field is, and in the display list its card
\* stands after every other card with sequence number 1, 2 or 3 and before
\* every other card with sequence number 4 or more, whatever the order of the
\* couples in the backend's answer.
C15_ClassHourBetween3And4 ==
  \A i \in 1..Len(payloadCouples) :
    IsClassHourCouple(payloadCouples[i]) =>
      /\ listStep # "received" => currentCouples[i].title = ClassHourTitle
      /\ listStep = "listed" =>
            LET p == CardOf(i - 1)
            IN  \A q \in 1..Len(currentScheduleList) :
                  q # p /\ HasSequenceNumber(currentScheduleList[q]) =>
                    /\ currentScheduleList[q].number.n \in {1, 2, 3} => q < p
                    /\ currentScheduleList[q].number.n >= 4 => p < q
\* ------------------------------------------------ claims on the device token
\* The item holds a token.
HasToken(item) == ~item.null /\ item.s # <<>>

\* The step is a call of getDeviceToken.
CallsGetDeviceToken ==
  lastToken'.kind = "getDeviceToken" /\ (lastToken' # lastToken \/ tokenItem' # tokenItem)

\* The call asked for permission or asked the push provider.
AskedAnyone(call) == call.hasPermission \/ call.requestPermission \/ call.getToken

\* The call found no token, got one from the push provider and returned it.
AcquiredToken(call) ==
  /\ call.kind = "getDeviceToken" /\ ~HasToken(call.before)
  /\ call.returned /\ call.getToken /\ call.value # <<>>

\* C17: a getDeviceToken call without forceRefresh that finds a token in
\* the cache returns it and asks neither for permission nor the push
\* provider; a call that finds none and returns a non-empty token has
\* stored it, and the next call of the cache, when it is a getDeviceToken
\* without forceRefresh, returns the same token.
C17_CachedTokenReturned ==
  [][CallsGetDeviceToken =>
       /\ ~lastToken'.forceRefresh /\ lastToken'.readOk /\ HasToken(tokenItem)
            => /\ lastToken'.returned /\ lastToken'.value = tokenItem.s
               /\ ~AskedAnyone(lastToken')
               /\ tokenItem' = tokenItem
       /\ AcquiredToken(lastToken') => tokenItem' = Text(lastToken'.value)
       /\ AcquiredToken(lastToken) /\ ~lastToken'.forceRefresh /\ lastToken'.readOk
            => lastToken'.returned /\ lastToken'.value = lastToken.value]_vars

\* C17 witness: a call without forceRefresh returned the token "a" from
\* the cache, where an earlier call had stored it, and asked no one.
C17_Witness ==
  /\ lastToken.kind = "getDeviceToken" /\ ~lastToken.forceRefresh
  /\ lastToken.before = Text(<<"a">>)
  /\ lastToken.returned /\ lastToken.value = <<"a">>
  /\ ~AskedAnyone(lastToken)
  /\ tokenItem = Text(<<"a">>)

\* The status the permission calls of the call ended with.
FinalStatus(call) ==
  IF call.requestPermission THEN call.requestedStatus ELSE call.currentStatus

Granted == {"AUTHORIZED", "PROVISIONAL"}

\* C18: a getDeviceToken call that finds no token in the cache and whose
\* permission calls end with a status that is neither authorized nor
\* provisional fails, does not ask the push provider and leaves the cache
\* without a token; and requestPermission is called only after hasPermission
\* answered with a status that is neither authorized nor provisional.
C18_DeniedPermissionFails ==
  [][CallsGetDeviceToken =>
       /\ ~HasToken(tokenItem) /\ lastToken'.hasPermission
           /\ FinalStatus(lastToken') \notin Granted
            => /\ ~lastToken'.returned
               /\ ~lastToken'.getToken
               /\ tokenItem' = tokenItem
       /\ lastToken'.requestPermission
            => lastToken'.hasPermission /\ lastToken'.currentStatus \notin Granted]_vars

\* C18 witness: no token was cached, hasPermission answered "not
\* determined", requestPermission answered "denied", and the call failed
\* without asking the push provider.
C18_Witness ==
  /\ lastToken.kind = "getDeviceToken" /\ lastToken.before = NoText
  /\ lastToken.hasPermission /\ lastToken.currentStatus = "NOT_DETERMINED"
  /\ lastToken.requestPermission /\ lastToken.requestedStatus = "DENIED"
  /\ ~lastToken.returned /\ ~lastToken.getToken
  /\ tokenItem = NoText
\* --------------------------------------------- claims on the web device token
\* C19: on the web all getWebDeviceToken calls that have returned, calls
\* that overlapped included, returned the same token, and it is the token
\* stored under WEB_DEVICE_TOKEN_KEY.
C19_SameWebToken ==
  \A c \in WebCallIds, d \in WebCallIds :
    webCalls[c].pc = "done" /\ webCalls[d].pc = "done"
      => webCalls[c].result = webCalls[d].result /\ webCalls[c].result = webItem
\* ------------------------------------------- claims on the subscription list
\* The handler call has made its optimistic change and waits for its token
\* or for its request.
ChangedAndWaiting(c) == subsOps[c].changed /\ subsOps[c].pc \in {"token", "request"}

\* The call ended without a successful request: the request failed, the
\* backend rejected it, or it was never sent.
EndedInFailure(op) == op.pc = "done" /\ op.changed /\ op.request \notin {"none", "success"}

InList(entry, list) == \E i \in 1..Len(list) : list[i].id = entry.id

\* C20: the optimistic change of the subscriptions list is not rolled back.
\* The step in which handleAddSubscription adds an entry leaves it in the
\* list and the step in which handleRemoveSubscription removes one leaves it
\* out; no later step of that handler call, whether its request fails, is
\* rejected by the backend or is never sent for want of a device token,
\* changes the list.
C20_OptimisticChangeNotRolledBack ==
  [][\A c \in SubsOpIds :
       /\ subsOps[c].pc = "idle" /\ subsOps'[c].changed
            => InList(subsOps'[c].entry, subscriptions') <=> subsOps'[c].kind = "add"
       /\ ChangedAndWaiting(c) /\ subsOps'[c] # subsOps[c]
            => subscriptions' = subscriptions]_vars

\* C20 witness: a call of handleRemoveSubscription whose delete request
\* failed and a call of handleAddSubscription whose subscribe request the
\* backend rejected have both returned; the removed entry is out of the
\* list and the added one is in it.
C20_Witness ==
  \E c \in SubsOpIds, d \in SubsOpIds :
    /\ subsOps[c].kind = "remove" /\ EndedInFailure(subsOps[c])
    /\ subsOps[c].request = "threw"
    /\ ~InList(subsOps[c].entry, subscriptions)
    /\ subsOps[d].kind = "add" /\ EndedInFailure(subsOps[d])
    /\ subsOps[d].request = "rejected"
    /\ InList(subsOps[d].entry, subscriptions)
\* The sequence number and the trimmed lower-cased title of the couple at
\* this place of the day.
MergeKey(i) == <<currentCouples[i].number, toLowerCase(Trim(currentCouples[i].title))>>

\* The cards that have the couple with this id among their grouped lessons,
\* each with the places where it stands.
PlacesOf(id) ==
  {<<p, k>> \in (1..Len(currentScheduleList)) \X (1..Len(currentCouples)) :
     /\ k <= Len(currentScheduleList[p].groupedLessons)
     /\ currentScheduleList[p].groupedLessons[k] = id}

OtherEntries(item) ==
  LET cache == readScheduleCache(item, TRUE)
  IN  [k \in (DOMAIN cache.fields) \ {TargetKey(DaysTarget)} |-> cache.fields[k]]

\* C22: when the schedule-cache operations do not overlap, a
\* getCachedScheduleForTarget or a persistScheduleForTarget of one target
\* leaves the stored entry of every other target key as it was.
C22_OtherTargetsUntouched ==
  [][OtherEntries(scheduleItem') = OtherEntries(scheduleItem)]_vars
\* The days the store under the cache key holds for the target, <<>> when
\* it holds none.
HeldFor(t) ==
  LET store == readScheduleCache(scheduleItem, TRUE)
  IN  IF HasKey(store, TargetKey(t)) THEN store.fields[TargetKey(t)] ELSE <<>>

\* The loads of both targets fetched at least one current day each, every
\* storage call of their persists resolved, and both have returned.
BothPersisted ==
  \A t \in Targets :
    /\ persists[t].pc = "done"
    /\ persists[t].readOk /\ persists[t].writeOk
    /\ persists[t].kept # <<>>

Overlapped == \E t \in Targets : persists[t].overlapped

\* C23, as stated: when loadSchedule(A) and loadSchedule(B) overlap and both
\* fetch at least one current day, the store afterwards holds the entries
\* of both.
C23_BothEntriesHeld ==
  BothPersisted /\ Overlapped => \A t \in Targets : HeldFor(t) = persists[t].kept

\* C23, amended: the last write wins.  The store afterwards holds the entry
\* of the call that wrote last; it holds the entry of the other call
\* exactly when the two persists did not overlap, that is when the later
\* one read the cache after the earlier one had written it.
C23_LastWriteWins ==
  BothPersisted =>
    /\ HeldFor(lastWriter) = persists[lastWriter].kept
    /\ HeldFor(OtherOf(lastWriter)) =
         IF Overlapped THEN <<>> ELSE persists[OtherOf(lastWriter)].kept

\* C23 witness: both loads persisted a current day, their persists
\* overlapped, and the store holds the entry of the last writer only.
C23_Witness ==
  /\ BothPersisted
  /\ Overlapped
  /\ HeldFor(lastWriter) # <<>>
  /\ HeldFor(OtherOf(lastWriter)) = <<>>
\* ------------------------------------------------ claims on overlapping loads
\* The fetch of the call has resolved or failed, and loadSchedule has gone on.
Responded(c) == calls[c].pc \in {"persistRead", "persistWrite", "done"}

\* The fetch of the call resolves or fails in this step.
Responds(c) == calls[c].pc = "fetch" /\ calls'[c].pc # "fetch"

\* C24: when two loadSchedule calls for the same target overlap, the
\* response of the call started earlier never replaces the scheduleDays or
\* the scheduleError that were set from the response of the call started
\* later.
C24_EarlierResponseIgnored ==
  [][\A c \in CallIds, d \in CallIds :
       /\ c < d /\ d = started
       /\ calls[c].target = calls[d].target
       /\ Responded(d)
       /\ Responds(c)
       => scheduleDays' = scheduleDays /\ scheduleError' = scheduleError]_vars
\* The fetch of the call, which is the current request, resolves with a body.
ShowsResponse(c) ==
  calls[c].pc = "fetch" /\ calls'[c].pc = "persistRead" /\ ~Superseded(c)

\* C25: the schedule days shown after a successful loadSchedule contain no
\* day before local midnight of today: they are the sequence the same call
\* persists for the target.
C25_ShownDaysArePersistedDays ==
  [][\A c \in CallIds :
       ShowsResponse(c) =>
         /\ \A i \in 1..Len(scheduleDays') : ~IsPastDay(scheduleDays'[i], now)
         /\ scheduleDays' = filterFutureScheduleDays(calls'[c].normalized, now)]_vars
\* The call was started and has not finished.
InFlight(c) == c <= started /\ calls[c].pc # "done"

\* C26: whatever the interleaving of loadSchedule calls, for equal or for
\* different targets, scheduleLoading is true exactly in the states where
\* a loadSchedule call for the current request key is in flight; it is false
\* once every started call has finished.
C26_LoadingWhileInFlight ==
  scheduleLoading <=>
    \E c \in CallIds : InFlight(c) /\ TargetKey(calls[c].target) = scheduleRequestKeyRef
CallsAdd(c) == subsOps[c].pc = "idle" /\ subsOps'[c].kind = "add"

\* The list holds an entry with the title and the type of this one.
HoldsSame(list, entry) ==
  \E i \in 1..Len(list) : list[i].title = entry.title /\ list[i].type = entry.type

\* C28: handleAddSubscription never makes the subscriptions list longer
\* than 10 entries, and never adds an entry whose title and type are those
\* of an entry already in the list.
C28_AtMostTenAndNoDuplicate ==
  [][\A c \in SubsOpIds :
       CallsAdd(c) /\ subscriptions' # subscriptions =>
         /\ Len(subscriptions') <= 10
         /\ ~HoldsSame(subscriptions, subsOps'[c].entry)]_vars

\* C28 witness: the list holds ten entries, and a call of
\* handleAddSubscription for a title that is not among them has returned
\* without adding it.
C28_Witness ==
  /\ Len(subscriptions) = 10
  /\ \E c \in SubsOpIds :
       /\ subsOps[c].kind = "add" /\ subsOps[c].pc = "done" /\ ~subsOps[c].changed
       /\ subsOps[c].entry \in {LocalSubscription("group", t) : t \in SubscriptionTitles}
       /\ \A i \in 1..10 : subscriptions[i].title # subsOps[c].entry.title

\* C29: after handleAddSubscription has added an entry and started the
\* cooldown of 5 seconds, a call of handleAddSubscription made before the
\* cooldown has counted down to 0 changes nothing in the subscriptions list
\* and sends no subscribe request: it returns at once, and a call that has
\* returned does nothing more.
C29_NoAddDuringCooldown ==
  [][\A c \in SubsOpIds :
       /\ CallsAdd(c) /\ subscriptionCooldown > 0
            => /\ subscriptions' = subscriptions
               /\ subscriptionCooldown' = subscriptionCooldown
               /\ subsOps'[c].pc = "done"
       /\ subsOps[c].pc = "done" => subsOps'[c] = subsOps[c]]_vars

\* C29 witness: one call of handleAddSubscription added an entry and
\* started the cooldown; a second call, made while two seconds of it were
\* left, has returned; the list holds the first entry only.
C29_Witness ==
  /\ subscriptionCooldown = 2
  /\ Len(subscriptions) = 1
  /\ \E c \in SubsOpIds, d \in SubsOpIds :
       /\ c < d
       /\ subsOps[c].kind = "add" /\ subsOps[c].changed
       /\ subscriptions[1] = subsOps[c].entry
       /\ subsOps[d].kind = "add" /\ subsOps[d].pc = "done" /\ ~subsOps[d].changed
       /\ subsOps[d].request = "cooldown"

\* The entries of the item under NOTIFICATIONS_CACHE_KEY: those of the
\* stored array, none when nothing or something else is stored.
CachedEntries(item) ==
  IF ParsesAsExpected("notifications", item) THEN item.val.fields ELSE <<>>

\* All entries carry one cachedAt.
SameCachedAt(cached) ==
  \A i \in 1..Len(cached), j \in 1..Len(cached) : cached[i].cachedAt = cached[j].cachedAt

\* C30: in every state reached through writeNotificationsCache and
\* readNotificationsCache, all entries of the notifications cache carry the
\* same cachedAt, and the latest readNotificationsCache returned either
\* every notification of the cache it read or none of them.
C30_OneCachedAtAllOrNone ==
  /\ SameCachedAt(CachedEntries(notificationsItem))
  /\ cacheRead.reader = "notifications" =>
       \/ cacheRead.result = Returned(JsNotifications(<<>>))
       \/ cacheRead.result =
            Returned(JsNotifications(NotificationsOf(CachedEntries(cacheRead.item))))

\* C30 witness: two notifications were written on one day and read on a
\* later day; the read found both too old, returned none and emptied the
\* cache.
C30_Witness ==
  /\ cacheRead.reader = "notifications" /\ cacheRead.readOk
  /\ Len(CachedEntries(cacheRead.item)) = 2
  /\ cacheWrite.made /\ now >= cacheWrite.at + ONE_WEEK_MS
  /\ cacheRead.item = writeNotificationsCache(AbsentItem, cacheWrite.list, TRUE, cacheWrite.at)
  /\ cacheRead.result = Returned(JsNotifications(<<>>))
  /\ CachedEntries(notificationsItem) = <<>>
  /\ JsonParses(notificationsItem)

====
